---- MODULE Spec2Model ----
(***************************************************************************)
(* Adaptive safety governor (AdvancedSafetyManager), backup store and      *)
(* crash recovery (RecoverySystem) and the orchestrator                    *)
(* (EnhancedLinkedInBot.safe_operation), modelled from the Python source.  *)
(*                                                                         *)
(* Time is an integer number of clock ticks; a timestamp written by        *)
(* datetime.now().isoformat() is the tick at which it was taken.           *)
(***************************************************************************)
EXTENDS Integers, Sequences, FiniteSets, TLC

VARIABLES
    now,              \* the wall clock (datetime.now()), in ticks
    config,           \* AdvancedSafetyManager.config: <<>> is None, <<c>> a loaded one
    suspicion_level,  \* AdvancedSafetyManager.suspicion_level
    recovery_mode,    \* AdvancedSafetyManager.recovery_mode
    actions,          \* session_data['actions']
    errors,           \* session_data['errors']
    recoveries,       \* session_data['recoveries']
    emergencies,      \* session_data['emergencies']
    timers,           \* pending threading.Timer objects: their firing times, ascending
    state_file,       \* session/security_state.json: <<>> is no file, <<c>> its content
    recovery,         \* the RecoverySystem object and the files it keeps
    last_call,        \* the call made by the last step, its inputs and its result
    history,          \* counts of the calls made so far
    threads,          \* two calls that run at once, statement by statement
    app               \* the web application's globals and its worker threads

govVars == <<config, suspicion_level, recovery_mode, actions, errors,
             recoveries, emergencies, timers, state_file>>

vars == <<now, govVars, recovery, last_call, history, threads, app>>

----------------------------------------------------------------------------
(* Clock and calendar                                                      *)

\* resolution of the model's clock: ticks in one second
TicksPerSecond == 2

Seconds(n) == n * TicksPerSecond
Minutes(n) == Seconds(60 * n)
Hours(n) == Seconds(3600 * n)
OneDay == Seconds(86400)

Min(a, b) == IF a <= b THEN a ELSE b
Max(a, b) == IF a >= b THEN a ELSE b

\* datetime.now().strftime('%Y-%m-%d'): the calendar day
DateOf(t) == t \div OneDay
\* datetime.now().strftime('%A').lower(): 0 is monday ... 6 is sunday
WeekdayOf(t) == DateOf(t) % 7
\* datetime.now().hour
HourOf(t) == (t % OneDay) \div Hours(1)
MinuteOf(t) == (t % Hours(1)) \div Minutes(1)
\* the ':' of an 'HH:MM' string: it sorts after every digit
Colon == 10
\* datetime.now().strftime('%H:%M'): five characters, zero padded
HHMM(t) == <<HourOf(t) \div 10, HourOf(t) % 10, Colon, MinuteOf(t) \div 10, MinuteOf(t) % 10>>

\* (b - a).seconds of a timedelta: the seconds field, without days and microseconds
TimedeltaSeconds(a, b) == ((b - a) % OneDay) \div TicksPerSecond
\* (b - a).days of a timedelta
TimedeltaDays(a, b) == (b - a) \div OneDay

RECURSIVE StrLess(_, _)
\* Python's s < t on strings: lexicographic, a proper prefix is smaller
StrLess(s, t) ==
    IF t = <<>> THEN FALSE
    ELSE IF s = <<>> THEN TRUE
    ELSE IF Head(s) # Head(t) THEN Head(s) < Head(t)
    ELSE StrLess(Tail(s), Tail(t))

----------------------------------------------------------------------------
(* The governor's state as one value, so that handlers compose            *)

None == "None"

Governor == [config |-> config, suspicion_level |-> suspicion_level,
             recovery_mode |-> recovery_mode, actions |-> actions,
             errors |-> errors, recoveries |-> recoveries,
             emergencies |-> emergencies, timers |-> timers,
             state_file |-> state_file]

SetGovernor(g) ==
    /\ config' = g.config
    /\ suspicion_level' = g.suspicion_level
    /\ recovery_mode' = g.recovery_mode
    /\ actions' = g.actions
    /\ errors' = g.errors
    /\ recoveries' = g.recoveries
    /\ emergencies' = g.emergencies
    /\ timers' = g.timers
    /\ state_file' = g.state_file

\* AdvancedSafetyManager.__init__ next to whatever file is on the disk
NewGovernor(file) ==
    [config |-> <<>>, suspicion_level |-> 0, recovery_mode |-> FALSE,
     actions |-> <<>>, errors |-> <<>>, recoveries |-> <<>>,
     emergencies |-> <<>>, timers |-> <<>>, state_file |-> file]

\* _save_session_state: the whole session_data is rewritten
_save_session_state(g) ==
    [g EXCEPT !.state_file =
        <<[suspicion_level |-> g.suspicion_level, recovery_mode |-> g.recovery_mode,
           actions |-> g.actions, errors |-> g.errors,
           recoveries |-> g.recoveries, emergencies |-> g.emergencies]>>]

RECURSIVE InsertSorted(_, _)
InsertSorted(s, x) ==
    IF s = <<>> THEN <<x>>
    ELSE IF x < Head(s) THEN <<x>> \o s
    ELSE <<Head(s)>> \o InsertSorted(Tail(s), x)

\* the ledger keeps the most recent 100 actions
ActionsKept == 100

LastN(s, n) == IF Len(s) > n THEN SubSeq(s, Len(s) - n + 1, Len(s)) ELSE s

\* the elements of a list, by position
Items(s) == 1..Len(s)

----------------------------------------------------------------------------
(* AdvancedSafetyManager: mutators                                         *)

\* record_action that writes every record as a success
record_action_as_success(g, t, action_type, success, details) ==
    LET action_record == [type |-> action_type, timestamp |-> t, date |-> DateOf(t),
                          success |-> TRUE, suspicion_level |-> g.suspicion_level,
                          details |-> details]
        appended == Append(g.actions, action_record)
        kept == IF Len(appended) > ActionsKept THEN LastN(appended, ActionsKept) ELSE appended
        g1 == [g EXCEPT !.actions = kept]
        g2 == IF ~success
              THEN [g1 EXCEPT !.errors = Append(g.errors, action_record),
                              !.suspicion_level = g.suspicion_level + 5]
              ELSE [g1 EXCEPT !.suspicion_level = Max(0, g.suspicion_level - 1)]
    IN  _save_session_state(g2)

\* record_action that returns without writing the state file
record_action_unsaved(g, t, action_type, success, details) ==
    LET action_record == [type |-> action_type, timestamp |-> t, date |-> DateOf(t),
                          success |-> success, suspicion_level |-> g.suspicion_level,
                          details |-> details]
        g1 == [g EXCEPT !.actions = LastN(Append(g.actions, action_record), ActionsKept)]
    IN  IF ~success
        THEN [g1 EXCEPT !.errors = Append(g.errors, action_record),
                        !.suspicion_level = g.suspicion_level + 5]
        ELSE [g1 EXCEPT !.suspicion_level = Max(0, g.suspicion_level - 1)]

\* record_action that keeps the first 100 records instead of the last
record_action_keeping_oldest(g, t, action_type, success, details) ==
    LET action_record == [type |-> action_type, timestamp |-> t, date |-> DateOf(t),
                          success |-> success, suspicion_level |-> g.suspicion_level,
                          details |-> details]
        appended == Append(g.actions, action_record)
        kept == IF Len(appended) > ActionsKept THEN SubSeq(appended, 1, ActionsKept)
                ELSE appended
        g1 == [g EXCEPT !.actions = kept]
        g2 == IF ~success
              THEN [g1 EXCEPT !.errors = Append(g.errors, action_record),
                              !.suspicion_level = g.suspicion_level + 5]
              ELSE [g1 EXCEPT !.suspicion_level = Max(0, g.suspicion_level - 1)]
    IN  _save_session_state(g2)

record_action(g, t, action_type, success, details) ==
    LET action_record == [type |-> action_type, timestamp |-> t, date |-> DateOf(t),
                          success |-> success, suspicion_level |-> g.suspicion_level,
                          details |-> details]
        appended == Append(g.actions, action_record)
        kept == IF Len(appended) > ActionsKept THEN LastN(appended, ActionsKept) ELSE appended
        g1 == [g EXCEPT !.actions = kept]
        g2 == IF ~success
              THEN [g1 EXCEPT !.errors = Append(g.errors, action_record),
                              !.suspicion_level = g.suspicion_level + 5]
              ELSE [g1 EXCEPT !.suspicion_level = Max(0, g.suspicion_level - 1)]
    IN  _save_session_state(g2)

\* activate_recovery_mode without the threading.Timer
activate_recovery_mode_untimed(g, t, duration_minutes) ==
    LET level == Min(100, g.suspicion_level + 30)
        recovery_record == [timestamp |-> t, duration |-> duration_minutes,
                            suspicion_level |-> level]
    IN  [g EXCEPT !.recovery_mode = TRUE,
                  !.suspicion_level = level,
                  !.recoveries = Append(g.recoveries, recovery_record)]

activate_recovery_mode(g, t, duration_minutes) ==
    LET level == Min(100, g.suspicion_level + 30)
        recovery_record == [timestamp |-> t, duration |-> duration_minutes,
                            suspicion_level |-> level]
    IN  [g EXCEPT !.recovery_mode = TRUE,
                  !.suspicion_level = level,
                  !.recoveries = Append(g.recoveries, recovery_record),
                  !.timers = InsertSorted(g.timers, t + Minutes(duration_minutes))]

deactivate_recovery_mode(g) ==
    [g EXCEPT !.recovery_mode = FALSE,
              !.suspicion_level = Max(0, g.suspicion_level - 20)]

\* a record_error that counts every error of the list, whatever its age
record_error_ageless(g, t, error_type, details) ==
    LET error_record == [type |-> error_type, timestamp |-> t, details |-> details,
                         suspicion_level |-> g.suspicion_level]
        g1 == [g EXCEPT !.errors = Append(g.errors, error_record),
                        !.suspicion_level = g.suspicion_level + 10]
        g2 == IF Len(g1.errors) > 3 THEN activate_recovery_mode(g1, t, 60) ELSE g1
    IN  _save_session_state(g2)

record_error(g, t, error_type, details) ==
    LET error_record == [type |-> error_type, timestamp |-> t, details |-> details,
                         suspicion_level |-> g.suspicion_level]
        g1 == [g EXCEPT !.errors = Append(g.errors, error_record),
                        !.suspicion_level = g.suspicion_level + 10]
        IsRecent(e) == t - e.timestamp < Seconds(3600)
        recent_errors == Cardinality({i \in Items(g1.errors) : IsRecent(g1.errors[i])})
        g2 == IF recent_errors > 3 THEN activate_recovery_mode(g1, t, 60) ELSE g1
    IN  _save_session_state(g2)

\* emergency_stop without the assignment of 100 to suspicion_level
emergency_stop_unraised(g, t, reason) ==
    LET g1 == [g EXCEPT !.recovery_mode = TRUE]
        g2 == activate_recovery_mode(g1, t, 240)
        emergency_record == [timestamp |-> t, reason |-> reason, action |-> "EMERGENCY_STOP"]
        g3 == [g2 EXCEPT !.emergencies = Append(g2.emergencies, emergency_record)]
    IN  _save_session_state(g3)

\* emergency_stop without the call of _save_session_state
emergency_stop_unsaved(g, t, reason) ==
    LET g1 == [g EXCEPT !.suspicion_level = 100, !.recovery_mode = TRUE]
        g2 == activate_recovery_mode(g1, t, 240)
        emergency_record == [timestamp |-> t, reason |-> reason, action |-> "EMERGENCY_STOP"]
    IN  [g2 EXCEPT !.emergencies = Append(g2.emergencies, emergency_record)]

emergency_stop(g, t, reason) ==
    LET g1 == [g EXCEPT !.suspicion_level = 100, !.recovery_mode = TRUE]
        g2 == activate_recovery_mode(g1, t, 240)
        emergency_record == [timestamp |-> t, reason |-> reason, action |-> "EMERGENCY_STOP"]
        g3 == [g2 EXCEPT !.emergencies = Append(g2.emergencies, emergency_record)]
    IN  _save_session_state(g3)

----------------------------------------------------------------------------
(* AdvancedSafetyManager: the checks of can_perform_action                 *)

Decision(allowed, reason, delay, mode) ==
    [allowed |-> allowed, reason |-> reason, delay |-> delay, mode |-> mode]

\* a.get('subtype'): record_action writes no such key
Subtype(a) == IF "subtype" \in DOMAIN a THEN a.subtype ELSE None

_check_daily_limits(g, t, action_type) ==
    LET today == DateOf(t)
        IsToday(a) == a.date = today /\ a.type = action_type
        IsTodayMessage(a) == IsToday(a) /\ Subtype(a) = "message"
    IN  IF /\ action_type = "connection"
           /\ Cardinality({i \in Items(g.actions) : IsToday(g.actions[i])})
                 >= g.config[1].daily_connections
        THEN Decision(FALSE, "Limite diario alcanzado", 3600, "limit_reached")
        ELSE IF action_type = "message"
                /\ Cardinality({i \in Items(g.actions) : IsTodayMessage(g.actions[i])})
                      >= g.config[1].messages_per_day
        THEN Decision(FALSE, "Limite mensajes alcanzado", 1800, "limit_reached")
        ELSE Decision(TRUE, "OK", 0, "normal")

\* the two intervals between the timestamps of the last three actions
Intervals(acts) ==
    LET last_actions == LastN(acts, 3)
    IN  [i \in 1..2 |-> TimedeltaSeconds(last_actions[i].timestamp, last_actions[i+1].timestamp)]

\* RoboticPattern with the threshold of 30 seconds cut to 10
RoboticPattern_short(acts) ==
    /\ Len(acts) >= 3
    /\ Intervals(acts)[1] = Intervals(acts)[2]
    /\ Intervals(acts)[1] < 10

\* the test of _check_action_patterns: identical intervals under 30 seconds
RoboticPattern(acts) ==
    /\ Len(acts) >= 3
    /\ Intervals(acts)[1] = Intervals(acts)[2]
    /\ Intervals(acts)[1] < 30

\* returns the decision and the governor, whose suspicion the check may raise;
\* random_delay is the draw of random.randint(60, 180)
_check_action_patterns(g, random_delay) ==
    IF Len(g.actions) < 3
    THEN [result |-> Decision(TRUE, "Patron insuficiente", 0, "normal"), g |-> g]
    ELSE IF RoboticPattern(g.actions)
    THEN [result |-> Decision(FALSE, "Patron temporal detectado", random_delay, "pattern_detected"),
          g |-> [g EXCEPT !.suspicion_level = g.suspicion_level + 20]]
    ELSE [result |-> Decision(TRUE, "Patron normal", 0, "normal"), g |-> g]

\* _check_safe_hours whose interval leaves out its two ends
_check_safe_hours_exclusive(g, t) ==
    IF g.config[1].work_schedule = <<>>
    THEN Decision(TRUE, "Sin horarios configurados", 0, "normal")
    ELSE LET schedule == g.config[1].work_schedule[WeekdayOf(t) + 1]
             current_time == HHMM(t)
         IN  IF schedule = <<>>
             THEN Decision(FALSE, "Dia no laboral configurado", 3600, "off_hours")
             ELSE IF ~StrLess(schedule[1], current_time) \/ ~StrLess(current_time, schedule[2])
             THEN Decision(FALSE, "Fuera de horario laboral", 3600, "off_hours")
             ELSE Decision(TRUE, "Horario laboral", 0, "normal")

_check_safe_hours(g, t) ==
    IF g.config[1].work_schedule = <<>>
    THEN Decision(TRUE, "Sin horarios configurados", 0, "normal")
    ELSE LET schedule == g.config[1].work_schedule[WeekdayOf(t) + 1]
             current_time == HHMM(t)
         IN  IF schedule = <<>>
             THEN Decision(FALSE, "Dia no laboral configurado", 3600, "off_hours")
             ELSE IF StrLess(current_time, schedule[1]) \/ StrLess(schedule[2], current_time)
             THEN Decision(FALSE, "Fuera de horario laboral", 3600, "off_hours")
             ELSE Decision(TRUE, "Horario laboral", 0, "normal")

\* 9 <= hour <= 11 or 14 <= hour <= 16
PeakHour(t) == (9 <= HourOf(t) /\ HourOf(t) <= 11) \/ (14 <= HourOf(t) /\ HourOf(t) <= 16)

\* ActionMultiplier10 without the 1.2 of a connection
ActionMultiplier10_flat(action_type) == 10

\* the multipliers 1.2 / 1.0 and 1.3 / 1.0, in tenths
ActionMultiplier10(action_type) == IF action_type = "connection" THEN 12 ELSE 10
TimeMultiplier10(t) == IF PeakHour(t) THEN 13 ELSE 10

\* The product base_delay * (1 + suspicion_level / 100) * 1.2|1.0 * 1.3|1.0 is
\* taken in binary floating point (IEEE 754 double). For base_delay >= 1 and
\* suspicion_level in 0..100 it lies below the next whole number, which the exact
\* product reaches, for these <<base_delay, suspicion_level, action multiplier,
\* time multiplier>> and for no others with a product below 120: int() then
\* gives one less than the exact product rounded down.
FloatShortfalls ==
    {<<25, 16, 10, 10>>, <<45, 40, 10, 10>>, <<50, 15, 12, 10>>, <<50, 16, 10, 10>>,
     <<50, 82, 10, 10>>, <<75, 36, 10, 10>>, <<85, 40, 10, 10>>, <<100, 13, 10, 10>>,
     <<100, 15, 10, 10>>, <<100, 16, 10, 10>>}

\* _calculate_safe_delay with the product taken exactly
_calculate_safe_delay_exact(g, t, action_type, base_delay) ==
    LET product == base_delay * (100 + g.suspicion_level)
                     * ActionMultiplier10(action_type) * TimeMultiplier10(t)
    IN  Max(10, Min(product \div 10000, 120))

\* base_delay is the draw of random.randint(min_action_delay, max_action_delay);
\* int() of the floating-point product
_calculate_safe_delay(g, t, action_type, base_delay) ==
    LET product == base_delay * (100 + g.suspicion_level)
                     * ActionMultiplier10(action_type) * TimeMultiplier10(t)
        shortfall == IF <<base_delay, g.suspicion_level, ActionMultiplier10(action_type),
                          TimeMultiplier10(t)>> \in FloatShortfalls
                     THEN 1 ELSE 0
        final_delay == product \div 10000 - shortfall
    IN  Max(10, Min(final_delay, 120))

\* can_perform_action with the suspicion check moved before the recovery check
can_perform_action_suspicion_first(g, t, action_type, random_delay, base_delay) ==
    IF g.config = <<>>
    THEN [result |-> Decision(FALSE, "Configuracion no cargada", 0, "blocked"), g |-> g]
    ELSE IF g.suspicion_level > 70
    THEN [result |-> Decision(FALSE, "Nivel de sospecha alto", 600, "suspicious"), g |-> g]
    ELSE IF g.recovery_mode
    THEN [result |-> Decision(FALSE, "Modo recuperacion activo", 300, "recovery"), g |-> g]
    ELSE IF ~_check_daily_limits(g, t, action_type).allowed
    THEN [result |-> _check_daily_limits(g, t, action_type), g |-> g]
    ELSE IF ~_check_action_patterns(g, random_delay).result.allowed
    THEN _check_action_patterns(g, random_delay)
    ELSE IF ~_check_safe_hours(g, t).allowed
    THEN [result |-> _check_safe_hours(g, t), g |-> g]
    ELSE [result |-> Decision(TRUE, "Accion permitida",
                              _calculate_safe_delay(g, t, action_type, base_delay), "normal"),
          g |-> g]

\* can_perform_action that raises the suspicion by 5 when the quota denies
can_perform_action_counting(g, t, action_type, random_delay, base_delay) ==
    IF g.config = <<>>
    THEN [result |-> Decision(FALSE, "Configuracion no cargada", 0, "blocked"), g |-> g]
    ELSE IF g.recovery_mode
    THEN [result |-> Decision(FALSE, "Modo recuperacion activo", 300, "recovery"), g |-> g]
    ELSE IF g.suspicion_level > 70
    THEN [result |-> Decision(FALSE, "Nivel de sospecha alto", 600, "suspicious"), g |-> g]
    ELSE IF ~_check_daily_limits(g, t, action_type).allowed
    THEN [result |-> _check_daily_limits(g, t, action_type),
          g |-> [g EXCEPT !.suspicion_level = @ + 5]]
    ELSE IF ~_check_action_patterns(g, random_delay).result.allowed
    THEN _check_action_patterns(g, random_delay)
    ELSE IF ~_check_safe_hours(g, t).allowed
    THEN [result |-> _check_safe_hours(g, t), g |-> g]
    ELSE [result |-> Decision(TRUE, "Accion permitida",
                              _calculate_safe_delay(g, t, action_type, base_delay), "normal"),
          g |-> g]

\* returns the decision and the governor after the call
can_perform_action(g, t, action_type, random_delay, base_delay) ==
    IF g.config = <<>>
    THEN [result |-> Decision(FALSE, "Configuracion no cargada", 0, "blocked"), g |-> g]
    ELSE IF g.recovery_mode
    THEN [result |-> Decision(FALSE, "Modo recuperacion activo", 300, "recovery"), g |-> g]
    ELSE IF g.suspicion_level > 70
    THEN [result |-> Decision(FALSE, "Nivel de sospecha alto", 600, "suspicious"), g |-> g]
    ELSE IF ~_check_daily_limits(g, t, action_type).allowed
    THEN [result |-> _check_daily_limits(g, t, action_type), g |-> g]
    ELSE IF ~_check_action_patterns(g, random_delay).result.allowed
    THEN _check_action_patterns(g, random_delay)
    ELSE IF ~_check_safe_hours(g, t).allowed
    THEN [result |-> _check_safe_hours(g, t), g |-> g]
    ELSE [result |-> Decision(TRUE, "Accion permitida",
                              _calculate_safe_delay(g, t, action_type, base_delay), "normal"),
          g |-> g]

----------------------------------------------------------------------------
(* AdvancedSafetyManager: loading                                          *)

_calculate_suspicion_level(g, t) ==
    IF g.actions = <<>> THEN [g EXCEPT !.suspicion_level = 0]
    ELSE
    LET n == Len(g.actions)
        span == g.actions[n].timestamp - g.actions[1].timestamp
        \* len(actions) / total_hours > 10, with total_hours = span / 3600 s
        dense == span > 0 /\ n * Hours(1) > 10 * span
        \* len(errors) / len(actions) * 100 > 20
        faulty == Len(g.errors) * 100 > 20 * n
        IsRecent(r) == TimedeltaDays(r.timestamp, t) < 1
        recovering == Cardinality({i \in Items(g.recoveries) : IsRecent(g.recoveries[i])}) > 2
        level == Min(100, g.suspicion_level
                          + (IF dense THEN 30 ELSE 0)
                          + (IF faulty THEN 25 ELSE 0)
                          + (IF recovering THEN 30 ELSE 0))
        idle == t - g.actions[n].timestamp > Seconds(3600)
    IN  [g EXCEPT !.suspicion_level = IF idle THEN (level * 8) \div 10 ELSE level]

\* what open(path, 'w') and an unfinished json.dump leave of the state file: no
\* content or the beginning of one
Partial == [partial |-> TRUE]

\* json.load raises on a partial file, and the except branch starts empty lists
_load_session_state(g, t) ==
    IF g.state_file # <<>> /\ g.state_file[1] # Partial
    THEN _calculate_suspicion_level(
            [g EXCEPT !.actions = g.state_file[1].actions,
                      !.errors = g.state_file[1].errors,
                      !.recoveries = g.state_file[1].recoveries,
                      !.emergencies = g.state_file[1].emergencies], t)
    ELSE [g EXCEPT !.actions = <<>>, !.errors = <<>>, !.recoveries = <<>>,
                   !.emergencies = <<>>]

\* cfg is the parsed content of config.yaml
load_config(g, t, cfg) == _load_session_state([g EXCEPT !.config = <<cfg>>], t)

----------------------------------------------------------------------------
(* RecoverySystem: the backup store                                        *)

\* the backups kept per tier by _clean_old_backups
HourlyKept == 24
DailyKept == 7

\* RecoverySystem.__init__ on empty directories; driver is <<>> for None
NewRecoverySystem(driver) ==
    [driver |-> driver, backups |-> {}, cookie_files |-> {}, recovery_log |-> <<>>]

\* strftime('%Y%m%d_%H%M%S'): the clock, cut to the second
Stamp(t) == t \div TicksPerSecond

\* the directory create_backup writes a backup of this type to
BackupDir(backup_type) ==
    IF backup_type = "hourly" THEN "hourly"
    ELSE IF backup_type = "daily" THEN "daily" ELSE "backups"

\* the file name within its directory: backup_<stamp>.json or backup_<stamp>_<type>.json
BackupName(t, backup_type) ==
    [stamp |-> Stamp(t), suffix |-> IF backup_type \in {"hourly", "daily"} THEN "" ELSE backup_type]

SamePath(f, dir, name) == f.dir = dir /\ f.name = name

\* sorted(dir.glob('*.json'))[:-n] is unlinked: the n greatest names stay
KeepLast(files, n) ==
    {f \in files : Cardinality({h \in files : h.name.stamp > f.name.stamp}) < n}

\* _clean_old_backups that also drops the backups outside the two tiers once
\* the hourly tier is over its limit
_clean_old_backups_all(files) ==
    LET hourly_files == {f \in files : f.dir = "hourly"}
        daily_files == {f \in files : f.dir = "daily"}
        others == {f \in files : f.dir = "backups"}
    IN  (IF Cardinality(hourly_files) > HourlyKept
         THEN KeepLast(hourly_files, HourlyKept) ELSE hourly_files \cup others)
        \cup
        (IF Cardinality(daily_files) > DailyKept
         THEN KeepLast(daily_files, DailyKept) ELSE daily_files)

_clean_old_backups(files) ==
    LET hourly_files == {f \in files : f.dir = "hourly"}
        daily_files == {f \in files : f.dir = "daily"}
        others == {f \in files : f.dir = "backups"}
    IN  (IF Cardinality(hourly_files) > HourlyKept
         THEN KeepLast(hourly_files, HourlyKept) ELSE hourly_files)
        \cup
        (IF Cardinality(daily_files) > DailyKept
         THEN KeepLast(daily_files, DailyKept) ELSE daily_files)
        \cup others

\* a create_backup that writes nothing
create_backup_skipped(r, t, backup_type, serial) == r

\* open(backup_path, 'w'): a file of that path is replaced. serial identifies the
\* call that wrote the content
create_backup(r, t, backup_type, serial) ==
    LET dir == BackupDir(backup_type)
        name == BackupName(t, backup_type)
        file == [dir |-> dir, name |-> name, type |-> backup_type,
                 created_at |-> t, serial |-> serial]
        cookie_files == IF r.driver # <<>>
                        THEN {c \in r.cookie_files : c.stamp # Stamp(t)}
                                \cup {[stamp |-> Stamp(t), cookies |-> r.driver[1].cookies,
                                       serial |-> serial]}
                        ELSE r.cookie_files
        written == {f \in r.backups : ~SamePath(f, dir, name)} \cup {file}
    IN  [r EXCEPT !.cookie_files = cookie_files,
                  !.backups = _clean_old_backups(written)]

----------------------------------------------------------------------------
(* RecoverySystem: crash recovery                                          *)

\* max(backup_files, key=st_mtime) over backups/**/*.json: <<>> when there is none
_find_latest_backup(r) ==
    IF r.backups = {} THEN <<>>
    ELSE <<CHOOSE f \in r.backups : \A h \in r.backups : h.serial <= f.serial>>

\* returns the RecoverySystem and whether cookies were restored. fails tells
\* where the try of the function raises: "no" for nowhere, "load" in open or
\* pickle.load, "apply" after delete_all_cookies; the except returns False
_restore_latest_cookies(r, fails) ==
    IF r.cookie_files = {} THEN [r |-> r, restored |-> FALSE]
    ELSE LET latest_cookie == CHOOSE c \in r.cookie_files :
                                  \A d \in r.cookie_files : d.serial <= c.serial
         IN  IF fails = "load" THEN [r |-> r, restored |-> FALSE]
             ELSE IF fails = "apply"
             THEN [r |-> [r EXCEPT !.driver = <<[r.driver[1] EXCEPT !.cookies = "none"]>>],
                   restored |-> FALSE]
             ELSE [r |-> [r EXCEPT !.driver = <<[r.driver[1] EXCEPT
                                                  !.cookies = latest_cookie.cookies]>>],
                   restored |-> TRUE]

\* localStorage, sessionStorage and every cookie of the browser are cleared; an
\* exception of the browser (fails) is swallowed by the bare except
_clean_problematic_elements(r, fails) ==
    IF r.driver = <<>> \/ fails THEN r
    ELSE [r EXCEPT !.driver = <<[r.driver[1] EXCEPT !.cookies = "none", !.storage = "none"]>>]

\* without a driver the probe fails; with one, reachable is what the browser finds
_check_linkedin_access(r, reachable) == r.driver # <<>> /\ reachable

\* a recover_from_crash in which a failing restore ends the sequence
recover_from_crash_aborting(r, reachable, restore_fails, clean_fails) ==
    LET attempt == [steps |-> <<>>, success |-> FALSE, linkedin_accessible |-> FALSE]
        whole == LET r3 == _clean_problematic_elements(
                               _restore_latest_cookies(r, restore_fails).r, clean_fails)
                     ok == _check_linkedin_access(r3, reachable)
                     done == [attempt EXCEPT !.success = ok, !.linkedin_accessible = ok]
                 IN  [r |-> [r3 EXCEPT !.recovery_log = Append(@, done)], result |-> done,
                      calls |-> <<"_find_latest_backup", "_restore_latest_cookies",
                                  "_clean_problematic_elements", "_check_linkedin_access">>]
    IN  IF r.driver # <<>> /\ r.cookie_files # {} /\ restore_fails # "no"
        THEN [r |-> r, result |-> attempt,
              calls |-> <<"_find_latest_backup", "_restore_latest_cookies">>]
        ELSE IF r.driver # <<>> THEN whole
        ELSE [whole EXCEPT !.calls = <<"_find_latest_backup", "_clean_problematic_elements",
                                       "_check_linkedin_access">>]

\* returns the RecoverySystem, the recovery_attempt, and the functions the call
\* went through, in order
recover_from_crash(r, reachable, restore_fails, clean_fails) ==
    LET latest_backup == _find_latest_backup(r)
        steps1 == IF latest_backup # <<>> THEN <<"Backup encontrado">> ELSE <<>>
        calls1 == <<"_find_latest_backup">>
        restore == IF r.driver # <<>> THEN _restore_latest_cookies(r, restore_fails)
                   ELSE [r |-> r, restored |-> FALSE]
        calls2 == IF r.driver # <<>> THEN Append(calls1, "_restore_latest_cookies") ELSE calls1
        steps2 == IF restore.restored THEN Append(steps1, "Cookies restauradas") ELSE steps1
        r3 == _clean_problematic_elements(restore.r, clean_fails)
        calls3 == Append(calls2, "_clean_problematic_elements")
        steps3 == Append(steps2, "Elementos problematicos limpiados")
        linkedin_accessible == _check_linkedin_access(r3, reachable)
        calls4 == Append(calls3, "_check_linkedin_access")
        steps4 == Append(steps3, IF linkedin_accessible THEN "Recuperacion exitosa"
                                 ELSE "LinkedIn no accesible")
        recovery_attempt == [steps |-> steps4, success |-> linkedin_accessible,
                             linkedin_accessible |-> linkedin_accessible]
    IN  [r |-> [r3 EXCEPT !.recovery_log = Append(r3.recovery_log, recovery_attempt)],
         result |-> recovery_attempt, calls |-> calls4]

----------------------------------------------------------------------------
(* RecoverySystem: CAPTCHA handling                                        *)

\* shown: whether the page of the browser carries one of the indicators; without
\* a driver nothing is detected
detect_captcha(r, shown) == r.driver # <<>> /\ shown

\* returns the RecoverySystem, the clock, whether the call raised, and the
\* captcha_info returned (<<>> when it raised)
handle_captcha(r, t, action, shown) ==
    LET captcha_info == [detected_at |-> t, action_taken |-> action, status |-> "pending"]
        t1 == IF action = "wait" THEN t + Seconds(300) ELSE t
        final == IF action = "wait"
                 THEN [captcha_info EXCEPT !.status = IF detect_captcha(r, shown)
                                                      THEN "still_present" ELSE "resolved"]
                 ELSE IF action = "notify"
                 THEN [captcha_info EXCEPT !.status = "notified"]
                 ELSE captcha_info
    IN  IF action = "stop"
        THEN [r |-> r, t |-> t, raised |-> TRUE, returned |-> <<>>]
        ELSE [r |-> [r EXCEPT !.recovery_log = Append(r.recovery_log, final)],
              t |-> t1, raised |-> FALSE, returned |-> <<final>>]

----------------------------------------------------------------------------

(* EnhancedLinkedInBot.safe_operation                                      *)

RECURSIVE Sleep(_, _)
\* time.sleep: the timers that come due while the caller sleeps until t fire
Sleep(g, t) ==
    IF g.timers # <<>> /\ Head(g.timers) <= t
    THEN Sleep([deactivate_recovery_mode(g) EXCEPT !.timers = Tail(g.timers)], t)
    ELSE g

\* recovery_result.get('status', 'unknown'): a recovery_attempt has no such key
RecoveryStatus(attempt) == IF "status" \in DOMAIN attempt THEN attempt.status ELSE "unknown"

\* raises: whether operation_func raises; reachable: what the probe of recover
\* finds; serial numbers the backups written. The RecoverySystem of the bot has
\* no driver, so no step of its recovery can fail in the browser. Returns the
\* governor, the RecoverySystem, the clock and the returned triple, with what the
\* call did on the way. post_fails: the open() of the post_action backup raises
\* OSError, inside the try.
safe_operation(g, r, t, operation_name, raises, reachable, random_delay, base_delay, serial, post_fails) ==
    LET check == can_perform_action(g, t, operation_name, random_delay, base_delay)
        safety_check == check.result
        seen == [decision |-> safety_check, operation_calls |-> 0, recover_calls |-> 0,
                 accessible |-> FALSE, emergency_calls |-> 0, backups_written |-> 0,
                 events |-> <<>>]
    IN  IF ~safety_check.allowed
        THEN LET g1 == record_action(check.g, t, operation_name, FALSE,
                                     [reason |-> safety_check.reason, mode |-> safety_check.mode])
                 t1 == IF safety_check.delay > 0 THEN t + Seconds(safety_check.delay) ELSE t
             IN  [g |-> Sleep(g1, t1), r |-> r, t |-> t1,
                  result |-> [success |-> FALSE, message |-> <<safety_check.reason>>],
                  seen |-> [seen EXCEPT !.events = <<"record_action">>]]
        ELSE LET r1 == create_backup(r, t, "pre_action", serial)
                 t1 == t + Seconds(safety_check.delay)
                 g1 == Sleep(check.g, t1)
                 \* the except clause, entered from governor h
                 except(h, before) ==
                     LET g2 == record_error(h, t1, "operation_failed", "error")
                         g3 == record_action(g2, t1, operation_name, FALSE,
                                    [error |-> "error", delay_used |-> safety_check.delay])
                         rec == recover_from_crash(r1, reachable, "no", FALSE)
                         g4 == IF ~rec.result.success
                               THEN emergency_stop(g3, t1, "Fallo") ELSE g3
                     IN  [g |-> g4, r |-> rec.r, t |-> t1,
                          result |-> [success |-> FALSE,
                                      message |-> <<"error", RecoveryStatus(rec.result)>>],
                          seen |-> [seen EXCEPT
                                       !.operation_calls = 1, !.backups_written = 1,
                                       !.recover_calls = 1,
                                       !.accessible = rec.result.linkedin_accessible,
                                       !.emergency_calls = IF rec.result.success THEN 0 ELSE 1,
                                       !.events = before \o <<"record_error", "record_action",
                                                              "recover_from_crash">>
                                                  \o (IF rec.result.success THEN <<>>
                                                      ELSE <<"emergency_stop">>)]]
             IN  IF raises
                 THEN except(g1, <<"create_backup pre_action", "operation_func">>)
                 ELSE LET g2 == record_action(g1, t1, operation_name, TRUE,
                                    [delay_used |-> safety_check.delay, mode |-> safety_check.mode])
                          r2 == create_backup(r1, t1, "post_action", serial + 1)
                      IN  IF post_fails
                          THEN except(g2, <<"create_backup pre_action", "operation_func",
                                            "record_action">>)
                          ELSE [g |-> g2, r |-> r2, t |-> t1,
                                result |-> [success |-> TRUE, message |-> <<"Operacion exitosa">>],
                                seen |-> [seen EXCEPT
                                             !.operation_calls = 1, !.backups_written = 2,
                                             !.events = <<"create_backup pre_action",
                                                          "operation_func", "record_action",
                                                          "create_backup post_action">>]]

----------------------------------------------------------------------------
(* Inputs                                                                  *)

\* 'HH:MM' as written in config.yaml
T0900 == <<0, 9, Colon, 0, 0>>
T1059 == <<1, 0, Colon, 5, 9>>
T1800 == <<1, 8, Colon, 0, 0>>
T1100 == <<1, 1, Colon, 0, 0>>

\* parsed config.yaml files: without and with behavior.work_schedule, whose entry
\* for a weekday (1 is monday) is <<>> when the day has none
ConfigOpen ==
    [daily_connections |-> 2, messages_per_day |-> 2,
     min_action_delay |-> 30, max_action_delay |-> 90, work_schedule |-> <<>>]
ConfigScheduled ==
    [ConfigOpen EXCEPT !.work_schedule = [d \in 1..7 |-> IF d = 1 THEN <<T0900, T1059>> ELSE <<>>]]

ActionTypes == {"connection", "message"}

\* the values a random.randint(lo, hi) is taken to return: the ends and the middle
SomeInts(lo, hi) == {lo, (lo + hi) \div 2, hi}
\* or the ends alone
EndInts(lo, hi) == {lo, hi}
\* or every value
AllInts(lo, hi) == lo..hi

\* the process starts on a monday at 10:59:40
StartTime == Hours(10) + Minutes(59) + Seconds(40)

\* the clock stops after this many steps of 10 seconds
MaxTicks == 2
\* bounds of the ledger's lists
MaxActions == 3
MaxErrors == 4
MaxRecoveries == 2

\* a call without a result
Nothing == [returned |-> None]

NoCall(op) == [op |-> op, action_type |-> None, result |-> Nothing,
               suspicion_before |-> suspicion_level, recovery_before |-> recovery_mode,
               errors_before |-> Len(errors), emergencies_before |-> Len(emergencies),
               actions_before |-> Len(actions), backups_before |-> recovery.backups,
               recovery_log_before |-> Len(recovery.recovery_log),
               recoveries_before |-> Len(recoveries)]

Call(op, action_type, result) ==
    [NoCall(op) EXCEPT !.action_type = action_type, !.result = result]

----------------------------------------------------------------------------
(* The web application: start_bot, its worker run_bot, and stop_bot        *)

\* the globals of app.py after import; workers are the threads start_bot made,
\* and last_logs is kept as the number of its lines
NewApp == [is_running |-> FALSE, current_status |-> "Listo para comenzar",
           bot_instance |-> <<>>, bot_thread |-> <<>>, last_logs |-> 0,
           workers |-> <<>>]

\* a thread made by start_bot that has not run yet; stopped and late tell
\* whether stop_bot set the flag during its life and which calls it began after
NewWorker(action) ==
    [action |-> action, pc |-> "created", todo |-> 0, connected |-> 0,
     ended |-> "", shut |-> FALSE, stopped |-> FALSE, late |-> {}]

Log(a, line) == [a EXCEPT !.last_logs = @ + 1]

\* worker i calls op and is inside it until it returns
Begin(a, i, op) ==
    [a EXCEPT !.workers[i].pc = op,
              !.workers[i].late = IF a.workers[i].stopped THEN @ \cup {op} ELSE @]

\* the finally clause of run_bot, up to its call of safe_shutdown
Finally(a, i, ended) ==
    LET b == [a EXCEPT !.is_running = FALSE, !.workers[i].ended = ended]
    IN  IF b.bot_instance # <<>>
        THEN Begin([b EXCEPT !.workers[b.bot_instance[1]].shut = TRUE], i, "safe_shutdown")
        ELSE [b EXCEPT !.workers[i].pc = "done"]

\* the export that follows the loop, or that follows the search for other actions
Export(a, i) == Begin(a, i, "export_profiles")

\* the head of "for profile in profiles": the flag is read before each profile
LoopHead(a, i) ==
    IF a.workers[i].todo = 0 \/ ~a.is_running
    THEN Export(Log(a, "conexiones exitosas"), i)
    ELSE Begin(a, i, "send_connection_request")

\* run_bot of worker i from the return of the call it is in to its next call;
\* ok and found are what the call in flight returns (ok FALSE for
\* export_profiles is its mkdir raising)
run_bot(a, i, ok, found) ==
    LET w == a.workers[i]
    IN  CASE w.pc = "created" ->
                Begin(Log([a EXCEPT !.bot_instance = <<i>>,
                                    !.current_status = "Inicializando bot..."],
                          "Iniciando bot"), i, "initialize")
          [] w.pc = "initialize" ->
                IF ~ok
                THEN Finally([a EXCEPT !.current_status = "Error al inicializar",
                                       !.is_running = FALSE], i, "initialize")
                ELSE Begin(Log([a EXCEPT !.current_status = "Iniciando sesión en LinkedIn..."],
                               "Iniciando sesión"), i, "login")
          [] w.pc = "login" ->
                IF ~ok
                THEN Finally([a EXCEPT !.current_status = "Error en login",
                                       !.is_running = FALSE], i, "login")
                ELSE Begin(Log([a EXCEPT !.current_status = "Buscando perfiles..."],
                               "Buscando perfiles"), i, "search_profiles")
          [] w.pc = "search_profiles" ->
                IF found = 0
                THEN Finally(Log([a EXCEPT !.current_status = "No se encontraron perfiles",
                                           !.is_running = FALSE],
                                 "No hay perfiles disponibles"), i, "search_profiles")
                ELSE IF w.action = "connect"
                THEN LoopHead(Log([a EXCEPT !.current_status = "Conectando",
                                            !.workers[i].todo = found],
                                  "Conectando"), i)
                ELSE Export(a, i)
          [] w.pc = "send_connection_request" ->
                Begin(IF ok THEN [a EXCEPT !.workers[i].connected = @ + 1,
                                           !.current_status = "Conectados"]
                            ELSE a, i, "sleep")
          [] w.pc = "sleep" ->
                LoopHead([a EXCEPT !.workers[i].todo = @ - 1], i)
          [] w.pc = "export_profiles" ->
                IF ~ok
                THEN Finally(Log([a EXCEPT !.current_status = "Error"], "ERROR"), i, "error")
                ELSE Finally(Log(Log([a EXCEPT !.current_status = "Proceso completado"],
                                     "Exportado"),
                                 "Proceso completado exitosamente"), i, "completed")
          [] w.pc = "safe_shutdown" ->
                [a EXCEPT !.workers[i].pc = "done"]

\* POST /api/start
start_bot(a, action) ==
    IF a.is_running
    THEN [a |-> a, success |-> FALSE]
    ELSE [a |-> [a EXCEPT !.is_running = TRUE, !.current_status = "Comenzando...",
                          !.workers = Append(@, NewWorker(action)),
                          !.bot_thread = <<Len(a.workers) + 1>>],
          success |-> TRUE]

\* POST /api/stop
stop_bot(a) ==
    IF ~a.is_running
    THEN [a |-> a, success |-> FALSE]
    ELSE [a |-> Log([a EXCEPT !.is_running = FALSE, !.current_status = "Deteniendo..."],
                    "Detenido por usuario"),
          success |-> TRUE]

\* the flag has been set during the life of every worker that has not ended
Stopped(a) ==
    [a EXCEPT !.workers = [i \in Items(a.workers) |->
                              IF a.workers[i].pc # "done"
                              THEN [a.workers[i] EXCEPT !.stopped = TRUE]
                              ELSE a.workers[i]]]

----------------------------------------------------------------------------

(* The operations as steps                                                 *)

\* no two calls run at once: every call runs from its start to its return
Idle == [foreground |-> <<>>, timer |-> <<>>, serial |-> {}]

\* the processes start with nothing on the disk
Init ==
    /\ now = StartTime
    /\ config = <<>>
    /\ suspicion_level = 0
    /\ recovery_mode = FALSE
    /\ actions = <<>>
    /\ errors = <<>>
    /\ recoveries = <<>>
    /\ emergencies = <<>>
    /\ timers = <<>>
    /\ state_file = <<>>
    /\ recovery = NewRecoverySystem(<<>>)
    /\ last_call = [op |-> "init", action_type |-> None, result |-> Nothing,
                    suspicion_before |-> 0, recovery_before |-> FALSE, errors_before |-> 0,
                    emergencies_before |-> 0, actions_before |-> 0, backups_before |-> {},
                    recovery_log_before |-> 0, recoveries_before |-> 0]
    /\ history = [recorded |-> 0, created |-> 0, hourly_created |-> 0, daily_created |-> 0,
                  same_second |-> 0, runs |-> 0, probe_failures |-> 0, activated |-> 0,
                  races |-> 0, kills |-> 0, handled |-> 0, loads |-> 0]
    /\ threads = Idle
    /\ app = NewApp

\* a process start: AdvancedSafetyManager() and load_config() on the files left behind
Start(cfg) ==
    /\ SetGovernor(load_config(NewGovernor(state_file), now, cfg))
    /\ last_call' = Call("load_config", None, Nothing)
    /\ UNCHANGED <<app, threads, now, recovery, history>>

\* load_config() called again on the governor of the running process
Reload(cfg) ==
    /\ SetGovernor(load_config(Governor, now, cfg))
    /\ last_call' = Call("load_config", None, [again |-> TRUE])
    /\ history' = [history EXCEPT !.loads = @ + 1]
    /\ UNCHANGED <<app, threads, now, recovery>>

RecordAction(action_type, success) ==
    /\ SetGovernor(record_action(Governor, now, action_type, success, None))
    /\ last_call' = Call("record_action", action_type, [success |-> success])
    /\ history' = [history EXCEPT !.recorded = @ + 1]
    /\ UNCHANGED <<app, threads, now, recovery>>

\* the activate_recovery_mode calls that took a governor from g to h
Activations(g, h) == IF Len(h.recoveries) > Len(g.recoveries)
                     THEN Len(h.recoveries) - Len(g.recoveries) ELSE 0

\* record_action with the details of a run that succeeded
RecordRun(action_type, delay_used) ==
    /\ SetGovernor(record_action(Governor, now, action_type, TRUE,
                                 [delay_used |-> delay_used, mode |-> "normal"]))
    /\ last_call' = Call("record_action", action_type, [success |-> TRUE])
    /\ history' = [history EXCEPT !.recorded = @ + 1]
    /\ UNCHANGED <<app, threads, now, recovery>>

\* record_action with details that number the call
RecordNumbered(action_type, success) ==
    /\ SetGovernor(record_action(Governor, now, action_type, success,
                                 [serial |-> history.recorded + 1]))
    /\ last_call' = Call("record_action", action_type, [success |-> success])
    /\ history' = [history EXCEPT !.recorded = @ + 1]
    /\ UNCHANGED <<app, threads, now, recovery>>

RecordError ==
    LET g == record_error(Governor, now, "operation_failed", "error")
    IN  /\ SetGovernor(g)
        /\ last_call' = Call("record_error", None, Nothing)
        /\ history' = [history EXCEPT !.activated = @ + Activations(Governor, g)]
        /\ UNCHANGED <<app, threads, now, recovery>>

\* base_draws is how the random.randint of _calculate_safe_delay is drawn:
\* "some" of its values or "all" of them
Decide(action_type, base_draws) ==
    /\ \E random_delay \in SomeInts(60, 180) :
       \E base_delay \in (IF config = <<>> THEN {0}
                          ELSE IF base_draws = "all"
                          THEN AllInts(config[1].min_action_delay, config[1].max_action_delay)
                          ELSE SomeInts(config[1].min_action_delay, config[1].max_action_delay)) :
          \E r \in {can_perform_action(Governor, now, action_type, random_delay, base_delay)} :
              /\ SetGovernor(r.g)
              /\ last_call' = Call("can_perform_action", action_type, r.result)
    /\ UNCHANGED <<app, threads, now, recovery, history>>

ActivateRecoveryMode(duration_minutes) ==
    /\ SetGovernor(activate_recovery_mode(Governor, now, duration_minutes))
    /\ last_call' = Call("activate_recovery_mode", None, [duration_minutes |-> duration_minutes])
    /\ history' = [history EXCEPT !.activated = @ + 1]
    /\ UNCHANGED <<app, threads, now, recovery>>

DeactivateRecoveryMode ==
    /\ SetGovernor(deactivate_recovery_mode(Governor))
    /\ last_call' = Call("deactivate_recovery_mode", None, [by |-> "call"])
    /\ UNCHANGED <<app, threads, now, recovery, history>>

EmergencyStop ==
    /\ SetGovernor(emergency_stop(Governor, now, "reason"))
    /\ last_call' = Call("emergency_stop", None, Nothing)
    /\ history' = [history EXCEPT !.activated = @ + 1]
    /\ UNCHANGED <<app, threads, now, recovery>>

\* the earliest pending threading.Timer fires and runs deactivate_recovery_mode
TimerFires ==
    /\ timers # <<>>
    /\ now' = Max(now, Head(timers))
    /\ SetGovernor([deactivate_recovery_mode(Governor) EXCEPT !.timers = Tail(timers)])
    /\ last_call' = Call("deactivate_recovery_mode", None, [by |-> "timer"])
    /\ UNCHANGED <<app, threads, recovery, history>>

\* time passes; a pending timer fires when its time has come
Tick(d) ==
    /\ timers # <<>> => now + d <= Head(timers)
    /\ now' = now + d
    /\ last_call' = NoCall("tick")
    /\ UNCHANGED <<app, threads, govVars, recovery, history>>

\* RecoverySystem.create_backup
CreateBackup(backup_type) ==
    /\ recovery' = create_backup(recovery, now, backup_type, history.created + 1)
    /\ history' = [history EXCEPT
                     !.created = @ + 1,
                     !.hourly_created = IF backup_type = "hourly" THEN @ + 1 ELSE @,
                     !.daily_created = IF backup_type = "daily" THEN @ + 1 ELSE @,
                     !.same_second =
                        IF \E f \in recovery.backups :
                              SamePath(f, BackupDir(backup_type), BackupName(now, backup_type))
                        THEN @ + 1 ELSE @]
    /\ last_call' = Call("create_backup", backup_type, Nothing)
    /\ UNCHANGED <<app, threads, now, govVars>>

\* EnhancedLinkedInBot.safe_operation, with the operation's outcome as input;
\* the probe of recover finds what the browser shows, when there is a browser
SafeOperationWith(operation_name, raises, post_fails) ==
    \E random_delay \in EndInts(60, 180), reachable \in BOOLEAN :
    \E base_delay \in (IF config = <<>> THEN {0}
                       ELSE EndInts(config[1].min_action_delay, config[1].max_action_delay)) :
    \E run \in {safe_operation(Governor, recovery, now, operation_name, raises, reachable,
                                random_delay, base_delay, history.created + 1, post_fails)} :
       LET failed == run.seen.recover_calls = 1 /\ ~run.seen.accessible
       IN  /\ SetGovernor(run.g)
           /\ recovery' = run.r
           /\ now' = run.t
           /\ last_call' = Call("safe_operation", operation_name,
                                [returned |-> run.result, seen |-> run.seen, raises |-> raises,
                                 post_fails |-> post_fails, reachable |-> reachable])
           /\ history' = [history EXCEPT !.created = @ + run.seen.backups_written,
                                         !.recorded = @ + 1,
                                         !.runs = @ + 1,
                                         !.activated = @ + Activations(Governor, run.g),
                                         !.probe_failures = IF failed THEN @ + 1 ELSE 0]
           /\ UNCHANGED <<app, threads>>

\* safe_operation with a disk that takes every write
SafeOperation(operation_name, raises) == SafeOperationWith(operation_name, raises, FALSE)

\* safe_operation whose operation returns and whose post_action backup cannot
\* be written
SafeOperationPostFails(operation_name) == SafeOperationWith(operation_name, FALSE, TRUE)

\* safe_operation while the backups directory cannot be written: the open() of
\* create_backup raises OSError, and the call of create_backup('pre_action')
\* stands before the try of safe_operation
SafeOperationUnwritable(operation_name) ==
    \E random_delay \in EndInts(60, 180) :
    \E base_delay \in (IF config = <<>> THEN {0}
                       ELSE EndInts(config[1].min_action_delay, config[1].max_action_delay)) :
       LET check == can_perform_action(Governor, now, operation_name, random_delay, base_delay)
       IN  /\ check.result.allowed
           /\ SetGovernor(check.g)
           /\ last_call' = Call("safe_operation", operation_name,
                                [returned |-> [propagated |-> "OSError"],
                                 seen |-> [decision |-> check.result, operation_calls |-> 0,
                                           recover_calls |-> 0, accessible |-> FALSE,
                                           emergency_calls |-> 0, backups_written |-> 0,
                                           events |-> <<>>],
                                 raises |-> FALSE, post_fails |-> FALSE, reachable |-> FALSE])
           /\ history' = [history EXCEPT !.runs = @ + 1]
           /\ UNCHANGED <<app, threads, now, recovery>>

----------------------------------------------------------------------------
(* A call of the foreground and the deactivate_recovery_mode of a timer    *)
(* thread, run statement by statement: the code holds no lock              *)

\* the statements of a call, in order. Those on the lists are taken whole: the
\* timer thread touches recovery_mode and suspicion_level only. An assignment
\* to suspicion_level is a read of the attribute and a write of the new value.
Statements(op, success) ==
    IF op = "record_action"
    THEN <<"append_action", "read", IF success THEN "minus1" ELSE "plus5", "save">>
    ELSE IF op = "record_error"
    THEN <<"append_error", "read", "plus10", "check_recent", "save">>
    ELSE IF op = "activate_recovery_mode"
    THEN <<"mode_true", "read", "plus30", "append_recovery">>
    ELSE <<"mode_false", "read", "minus20">>

\* a call at its first statement
Thread(op, action_type, success, duration) ==
    [op |-> op, action_type |-> action_type, success |-> success, duration |-> duration,
     todo |-> Statements(op, success), read |-> 0]

\* the next statement of thread th on governor g at time t: the governor and the
\* thread after it
Statement(g, th, t) ==
    LET do == Head(th.todo)
        rest == [th EXCEPT !.todo = Tail(th.todo)]
        record == [type |-> th.action_type, timestamp |-> t, date |-> DateOf(t),
                   success |-> th.success, suspicion_level |-> g.suspicion_level,
                   details |-> None]
        error_record == [type |-> "operation_failed", timestamp |-> t, details |-> "error",
                         suspicion_level |-> g.suspicion_level]
        recovery_record == [timestamp |-> t, duration |-> th.duration,
                            suspicion_level |-> g.suspicion_level]
        IsRecent(e) == t - e.timestamp < Seconds(3600)
        recent_errors == Cardinality({i \in Items(g.errors) : IsRecent(g.errors[i])})
    IN  IF do = "append_action"
        THEN [g |-> [g EXCEPT !.actions = LastN(Append(g.actions, record), ActionsKept),
                              !.errors = IF th.success THEN @ ELSE Append(@, record)],
              th |-> rest]
        ELSE IF do = "append_error"
        THEN [g |-> [g EXCEPT !.errors = Append(@, error_record)], th |-> rest]
        ELSE IF do = "read"
        THEN [g |-> g, th |-> [rest EXCEPT !.read = g.suspicion_level]]
        ELSE IF do = "plus5"
        THEN [g |-> [g EXCEPT !.suspicion_level = th.read + 5], th |-> rest]
        ELSE IF do = "minus1"
        THEN [g |-> [g EXCEPT !.suspicion_level = Max(0, th.read - 1)], th |-> rest]
        ELSE IF do = "plus10"
        THEN [g |-> [g EXCEPT !.suspicion_level = th.read + 10], th |-> rest]
        ELSE IF do = "plus30"
        THEN [g |-> [g EXCEPT !.suspicion_level = Min(100, th.read + 30)], th |-> rest]
        ELSE IF do = "minus20"
        THEN [g |-> [g EXCEPT !.suspicion_level = Max(0, th.read - 20)], th |-> rest]
        ELSE IF do = "mode_true"
        THEN [g |-> [g EXCEPT !.recovery_mode = TRUE], th |-> rest]
        ELSE IF do = "mode_false"
        THEN [g |-> [g EXCEPT !.recovery_mode = FALSE], th |-> rest]
        ELSE IF do = "append_recovery"
        THEN [g |-> [g EXCEPT !.recoveries = Append(@, recovery_record),
                              !.timers = InsertSorted(@, t + Minutes(th.duration))],
              th |-> rest]
        ELSE IF do = "check_recent"
        THEN [g |-> g,
              th |-> IF recent_errors > 3
                     THEN [rest EXCEPT !.duration = 60,
                                       !.todo = Statements("activate_recovery_mode", TRUE)
                                                   \o rest.todo]
                     ELSE rest]
        ELSE [g |-> _save_session_state(g), th |-> rest]

\* the same call run from its start to its return
Whole(g, th, t) ==
    IF th.op = "record_action" THEN record_action(g, t, th.action_type, th.success, None)
    ELSE IF th.op = "record_error" THEN record_error(g, t, "operation_failed", "error")
    ELSE IF th.op = "activate_recovery_mode" THEN activate_recovery_mode(g, t, th.duration)
    ELSE deactivate_recovery_mode(g)

Outcome(g) == [suspicion_level |-> g.suspicion_level, recovery_mode |-> g.recovery_mode]

\* the earliest timer comes due while the foreground enters a call
RaceBegin(op, success) ==
    LET t == Max(now, Head(timers))
        g == [Governor EXCEPT !.timers = Tail(timers)]
        foreground == Thread(op, "connection", success, 1)
        timer == Thread("deactivate_recovery_mode", None, TRUE, 0)
    IN  /\ now' = t
        /\ SetGovernor(g)
        /\ threads' = [foreground |-> <<foreground>>, timer |-> <<timer>>,
                       serial |-> {Outcome(Whole(Whole(g, foreground, t), timer, t)),
                                   Outcome(Whole(Whole(g, timer, t), foreground, t))}]
        /\ last_call' = Call("race_begin", None, [entered |-> op])
        /\ history' = [history EXCEPT !.races = @ + 1]
        /\ UNCHANGED <<recovery, app>>

ForegroundStep ==
    /\ threads.foreground # <<>>
    /\ threads.foreground[1].todo # <<>>
    /\ LET r == Statement(Governor, threads.foreground[1], now)
       IN  /\ SetGovernor(r.g)
           /\ threads' = [threads EXCEPT !.foreground = <<r.th>>]
    /\ last_call' = Call("statement", None, [thread |-> "foreground"])
    /\ UNCHANGED <<now, recovery, history, app>>

TimerStep ==
    /\ threads.timer # <<>>
    /\ threads.timer[1].todo # <<>>
    /\ LET r == Statement(Governor, threads.timer[1], now)
       IN  /\ SetGovernor(r.g)
           /\ threads' = [threads EXCEPT !.timer = <<r.th>>]
    /\ last_call' = Call("statement", None, [thread |-> "timer"])
    /\ UNCHANGED <<now, recovery, history, app>>

\* both calls have returned
RaceEnd ==
    /\ threads.foreground # <<>>
    /\ threads.foreground[1].todo = <<>>
    /\ threads.timer[1].todo = <<>>
    /\ threads' = Idle
    /\ last_call' = Call("race", None, [entered |-> threads.foreground[1].op,
                                        serial |-> threads.serial])
    /\ UNCHANGED <<now, govVars, recovery, history, app>>

\* the process is killed inside the _save_session_state of a record_action call,
\* between open(path, 'w') and the end of json.dump: the file is cut and the
\* governor is gone with its process
KilledInSave(action_type, success) ==
    LET g == record_action(Governor, now, action_type, success, None)
    IN  /\ SetGovernor(NewGovernor(<<Partial>>))
        /\ last_call' = Call("killed", action_type, [written |-> g.state_file])
        /\ history' = [history EXCEPT !.kills = @ + 1]
        /\ UNCHANGED <<now, recovery, threads, app>>

\* a RecoverySystem is constructed, with a driver or without, next to the files
\* on the disk
StartRecovery(driver) ==
    /\ recovery' = [NewRecoverySystem(driver) EXCEPT !.backups = recovery.backups,
                                                     !.cookie_files = recovery.cookie_files]
    /\ last_call' = Call("RecoverySystem", None, Nothing)
    /\ UNCHANGED <<now, govVars, history, threads, app>>

\* RecoverySystem.handle_captcha; the timers that come due while it sleeps fire
HandleCaptcha(action) ==
    \E shown \in BOOLEAN :
       LET h == handle_captcha(recovery, now, action, shown)
       IN  /\ recovery' = h.r
           /\ now' = h.t
           /\ SetGovernor(Sleep(Governor, h.t))
           /\ last_call' = Call("handle_captcha", action,
                                [raised |-> h.raised, returned |-> h.returned,
                                 shown |-> shown, slept |-> h.t - now])
           /\ history' = [history EXCEPT !.handled = @ + 1]
           /\ UNCHANGED <<app, threads>>

\* RecoverySystem.recover_from_crash with what its browser calls do
RecoverFromCrash(reachable, restore_fails, clean_fails) ==
    LET rec == recover_from_crash(recovery, reachable, restore_fails, clean_fails)
    IN  /\ recovery' = rec.r
        /\ last_call' = Call("recover_from_crash", None,
                             [returned |-> rec.result, calls |-> rec.calls,
                              reachable |-> reachable, restore_fails |-> restore_fails,
                              clean_fails |-> clean_fails,
                              attached |-> recovery.driver # <<>>,
                              cookie_files |-> Cardinality(recovery.cookie_files)])
        /\ UNCHANGED <<now, govVars, history, threads, app>>

\* the guards that keep the explored histories finite
ClockRuns == now + Seconds(10) <= StartTime + MaxTicks * Seconds(10)
LedgerOpen == Len(actions) < MaxActions /\ Len(errors) < MaxErrors
RecoveriesOpen == history.activated < MaxRecoveries

----------------------------------------------------------------------------
(* Spec: connection attempts, the decision and one emergency stop          *)

Next ==
    \/ config = <<>> /\ Start(ConfigScheduled)
    \/ \E ok \in BOOLEAN : LedgerOpen /\ RecordAction("connection", ok)
    \/ \E a \in ActionTypes : Decide(a, "some")
    \/ recoveries = <<>> /\ EmergencyStop
    \/ ClockRuns /\ Tick(Seconds(10))

Spec == Init /\ [][Next]_vars

----------------------------------------------------------------------------
(* SpecPattern: successful actions of both types and the decision          *)

NextPattern ==
    \/ config = <<>> /\ Start(ConfigScheduled)
    \/ \E a \in ActionTypes : LedgerOpen /\ RecordAction(a, TRUE)
    \/ \E a \in ActionTypes : Decide(a, "some")
    \/ ClockRuns /\ Tick(Seconds(10))

SpecPattern == Init /\ [][NextPattern]_vars

----------------------------------------------------------------------------
(* SpecRecovery: recovery mode, its timers and restarts of the process     *)

NextRecovery ==
    \/ Start(ConfigOpen)
    \/ LedgerOpen /\ RecoveriesOpen /\ RecordError
    \/ RecoveriesOpen /\ ActivateRecoveryMode(1)
    \/ RecoveriesOpen /\ EmergencyStop
    \/ recovery_mode /\ DeactivateRecoveryMode
    \/ TimerFires

SpecRecovery == Init /\ [][NextRecovery]_vars

\* a started threading.Timer runs its function once its interval has passed
SpecRecoveryFair == SpecRecovery /\ WF_vars(TimerFires)

----------------------------------------------------------------------------
(* SpecQuota: successful connections up to the daily quota                 *)

\* the daily_connections of config.yaml
QuotaChoices == {0, 1, 2, ActionsKept, ActionsKept + 1}

NextQuota ==
    \/ \E n \in QuotaChoices :
          config = <<>> /\ Start([ConfigOpen EXCEPT !.daily_connections = n])
    \/ /\ config # <<>>
       /\ history.recorded < config[1].daily_connections
       /\ RecordAction("connection", TRUE)
    \/ /\ config # <<>>
       /\ history.recorded >= config[1].daily_connections
       /\ Decide("connection", "some")

SpecQuota == Init /\ [][NextQuota]_vars

----------------------------------------------------------------------------
(* SpecBackup: the backup store                                            *)

\* create_backup calls explored per tier
MaxHourly == 26
MaxDaily == 9
\* and how many of them find a backup of their own second in place
MaxSameSecond == 1

\* a backup of this type was written in the current second
WrittenThisSecond(backup_type) ==
    \E f \in recovery.backups : SamePath(f, BackupDir(backup_type), BackupName(now, backup_type))

MayCreate(backup_type) ==
    WrittenThisSecond(backup_type) => history.same_second < MaxSameSecond

NextBackup ==
    \/ /\ history.hourly_created < MaxHourly
       /\ history.daily_created \in {0, MaxDaily}
       /\ MayCreate("hourly")
       /\ CreateBackup("hourly")
    \/ /\ history.daily_created < MaxDaily
       /\ MayCreate("daily")
       /\ CreateBackup("daily")
    \/ /\ history.created = 0
       /\ CreateBackup("manual")
    \/ /\ \E f \in recovery.backups : f.name.stamp = Stamp(now)
       /\ Tick(Seconds(1))

SpecBackup == Init /\ [][NextBackup]_vars

----------------------------------------------------------------------------
(* SpecRun: safe_operation of an EnhancedLinkedInBot, whose RecoverySystem *)
(* has no driver                                                           *)

\* safe_operation calls explored
MaxRuns == 3

NextRun ==
    \/ Start(ConfigOpen)
    \/ \E name \in {"connect", "connection"}, raises \in BOOLEAN :
          history.runs < MaxRuns /\ SafeOperation(name, raises)
    \/ TimerFires

SpecRun == Init /\ [][NextRun]_vars

----------------------------------------------------------------------------
(* SpecFault: safe_operation with a backups directory that may be          *)
(* unwritable                                                              *)

NextFault ==
    \/ Start(ConfigOpen)
    \/ \E raises \in BOOLEAN : history.runs < MaxRuns /\ SafeOperation("connect", raises)
    \/ history.runs < MaxRuns /\ SafeOperationUnwritable("connect")
    \/ history.runs < MaxRuns /\ SafeOperationPostFails("connect")
    \/ TimerFires

SpecFault == Init /\ [][NextFault]_vars

----------------------------------------------------------------------------

(* SpecRace: a timer comes due while the foreground is in a call           *)

\* races explored
MaxRaces == 1

NextRace ==
    \/ threads = Idle /\ config = <<>> /\ Start(ConfigOpen)
    \/ threads = Idle /\ RecoveriesOpen /\ ActivateRecoveryMode(1)
    \/ \E op \in {"record_action", "record_error", "activate_recovery_mode"},
          success \in BOOLEAN :
          /\ threads = Idle
          /\ timers # <<>>
          /\ history.races < MaxRaces
          /\ RaceBegin(op, success)
    \/ ForegroundStep
    \/ TimerStep
    \/ RaceEnd

SpecRace == Init /\ [][NextRace]_vars

----------------------------------------------------------------------------

(* SpecKill: the process dies while it writes the state file               *)

\* kills explored
MaxKills == 1

NextKill ==
    \/ config = <<>> /\ Start(ConfigOpen)
    \/ \E ok \in BOOLEAN : config # <<>> /\ LedgerOpen /\ RecordAction("connection", ok)
    \/ \E ok \in BOOLEAN :
          config # <<>> /\ history.kills < MaxKills /\ KilledInSave("connection", ok)
    \/ ClockRuns /\ Tick(Seconds(10))

SpecKill == Init /\ [][NextKill]_vars

----------------------------------------------------------------------------

(* SpecCaptcha: CAPTCHA handling with and without a browser                *)

\* handle_captcha calls explored
MaxHandled == 3

CaptchaActions == {"wait", "notify", "stop", "bypass"}

NextCaptcha ==
    \/ \E driver \in {<<>>, <<"driver">>} : StartRecovery(driver)
    \/ \E action \in CaptchaActions : history.handled < MaxHandled /\ HandleCaptcha(action)

SpecCaptcha == Init /\ [][NextCaptcha]_vars

----------------------------------------------------------------------------

(* SpecApp: start and stop requests while the workers run                  *)

\* start requests that make a worker
MaxStarts == 2
\* profiles a search finds at most
MaxProfiles == 2

BotActions == {"connect", "search"}

StartBot(action) ==
    LET r == start_bot(app, action)
    IN  /\ app' = r.a
        /\ last_call' = Call("start_bot", action, [returned |-> [success |-> r.success]])
        /\ UNCHANGED <<now, govVars, recovery, history, threads>>

StopBot ==
    LET r == stop_bot(app)
    IN  /\ app' = IF r.success THEN Stopped(r.a) ELSE r.a
        /\ last_call' = Call("stop_bot", None, [returned |-> [success |-> r.success]])
        /\ UNCHANGED <<now, govVars, recovery, history, threads>>

\* worker i runs up to its next call
RunBot(i, ok, found) ==
    /\ i \in Items(app.workers)
    /\ app.workers[i].pc # "done"
    /\ app' = run_bot(app, i, ok, found)
    /\ last_call' = Call("run_bot", app.workers[i].pc, [returned |-> [worker |-> i]])
    /\ UNCHANGED <<now, govVars, recovery, history, threads>>

NextApp ==
    \/ \E action \in BotActions :
          (app.is_running \/ Len(app.workers) < MaxStarts) /\ StartBot(action)
    \/ StopBot
    \/ \E i \in 1..MaxStarts, ok \in BOOLEAN, found \in 0..MaxProfiles : RunBot(i, ok, found)

SpecApp == Init /\ [][NextApp]_vars

\* the calls run_bot makes on the bot between its flag checks
Operations == {"initialize", "login", "search_profiles", "send_connection_request"}

\* C19: once stop_bot has set the flag, a worker begins no further operation
\* (the one in flight may complete; the export and the shutdown that end a run
\* are not counted), whenever the flag is set, a stop followed by a new start
\* included
C19_NoOperationAfterStop ==
    \A i \in Items(app.workers) : app.workers[i].late \cap Operations = {}

----------------------------------------------------------------------------

(* SpecRetry: a caller that goes on calling safe_operation after denials   *)

\* suspicion_level beyond which the retries are no longer followed
MaxSuspicion == 130

\* no safe_operation has run yet: the ledger is still being filled
Setup == config # <<>> /\ history.runs = 0

\* no timer that is still pending can bring suspicion_level back to 70: each
\* deactivate_recovery_mode takes 20 off
Stuck == suspicion_level - 20 * Len(timers) > 70

\* the caller runs the operation again; safe_operation itself sleeps the delay
\* of a denial. The caller stops at the first run that is allowed.
RetryDue ==
    /\ config # <<>>
    /\ history.created = 0
    /\ ~Stuck \/ suspicion_level <= MaxSuspicion

Retry == RetryDue /\ SafeOperation("connection", FALSE)

NextRetry ==
    \/ \E cfg \in {ConfigOpen, ConfigScheduled} : config = <<>> /\ Start(cfg)
    \/ \E action_type \in ActionTypes :
          Setup /\ LedgerOpen /\ RecordRun(action_type, config[1].min_action_delay)
    \/ Setup /\ history.activated = 0 /\ ActivateRecoveryMode(1)
    \/ Setup /\ now = StartTime /\ Tick(Seconds(20))
    \/ Retry
    \/ TimerFires

SpecRetry == Init /\ [][NextRetry]_vars

\* the caller goes on retrying and pending timers fire. safe_operation always
\* returns, so Retry is enabled exactly when RetryDue holds, and its steps are
\* the steps that count a run: the last conjunct is WF_vars(Retry)
SpecRetryFair ==
    /\ SpecRetry
    /\ WF_vars(TimerFires)
    /\ ([]<>~RetryDue) \/ ([]<><<RetryDue /\ history'.runs # history.runs>>_vars)

----------------------------------------------------------------------------

(* SpecCrash: recover_from_crash with a browser whose calls may fail       *)

\* recover_from_crash calls explored
MaxAttempts == 3

\* a webdriver with a session in its cookies and its storage
Browser == [cookies |-> "session", storage |-> "session"]

RestoreFailures == {"no", "load", "apply"}

NextCrash ==
    \/ \E driver \in {<<>>, <<Browser>>} : StartRecovery(driver)
    \/ \E backup_type \in {"pre_action", "hourly"} :
          history.created < MaxAttempts /\ CreateBackup(backup_type)
    \/ \E reachable \in BOOLEAN, restore_fails \in RestoreFailures, clean_fails \in BOOLEAN :
          /\ Len(recovery.recovery_log) < MaxAttempts
          /\ RecoverFromCrash(reachable, restore_fails, clean_fails)

SpecCrash == Init /\ [][NextCrash]_vars

----------------------------------------------------------------------------

(* SpecAttached: safe_operation of a bot whose RecoverySystem was given a  *)
(* browser, so that its recovery can succeed                               *)

NextAttached ==
    \/ config = <<>> /\ Start(ConfigOpen)
    \/ \E driver \in {<<>>, <<Browser>>} : history.runs = 0 /\ StartRecovery(driver)
    \/ \E raises \in BOOLEAN : history.runs < MaxRuns /\ SafeOperation("connect", raises)
    \/ TimerFires

SpecAttached == Init /\ [][NextAttached]_vars

----------------------------------------------------------------------------

(* SpecLedger: a long sequence of record_action calls                      *)

\* record_action calls explored
MaxRecorded == 103

\* a call may fail when the list is about to be trimmed, or has been
NextLedger ==
    \/ config = <<>> /\ history.recorded = 0 /\ Start(ConfigOpen)
    \/ \E success \in BOOLEAN :
          /\ history.recorded < MaxRecorded
          /\ success \/ history.recorded >= ActionsKept - 1
          /\ RecordNumbered("connection", success)
    \/ ClockRuns /\ history.recorded = ActionsKept /\ Tick(Seconds(10))

SpecLedger == Init /\ [][NextLedger]_vars

----------------------------------------------------------------------------

(* SpecMessages: messages up to the daily quota of messages               *)

\* the messages_per_day of config.yaml
MessageQuotas == {0, 1, 2, 3}

NextMessages ==
    \/ \E n \in MessageQuotas :
          config = <<>> /\ Start([ConfigOpen EXCEPT !.messages_per_day = n])
    \/ \E ok \in BOOLEAN :
          /\ config # <<>>
          /\ history.recorded < config[1].messages_per_day
          /\ RecordAction("message", ok)
    \/ /\ config # <<>>
       /\ history.recorded >= config[1].messages_per_day
       /\ Decide("message", "some")
    \/ ClockRuns /\ Tick(Seconds(10))

SpecMessages == Init /\ [][NextMessages]_vars

----------------------------------------------------------------------------

(* SpecCadence: three actions at chosen distances, then the decision       *)

\* the time between two actions: half a second, 5 seconds, 5.5 seconds,
\* 40 seconds, and one day and 5 seconds
Distances == {1, Seconds(5), Seconds(5) + 1, Seconds(40), OneDay + Seconds(5)}

NextCadence ==
    \/ config = <<>> /\ Start([ConfigOpen EXCEPT !.daily_connections = 10])
    \/ \E ok \in BOOLEAN :
          /\ config # <<>>
          /\ actions # <<>> => actions[Len(actions)].timestamp < now
          /\ LedgerOpen
          /\ RecordAction("connection", ok)
    \/ \E d \in Distances :
          /\ actions # <<>>
          /\ actions[Len(actions)].timestamp = now
          /\ LedgerOpen
          /\ Tick(d)
    \/ config # <<>> /\ Decide("connection", "some")

SpecCadence == Init /\ [][NextCadence]_vars

----------------------------------------------------------------------------

(* SpecHours: decisions over two days under several work schedules         *)

\* behavior.work_schedule of config.yaml: none, monday until 10:59, monday from
\* 11:00, every day but sunday from 11:00
HourSchedules ==
    {<<>>,
     [d \in 1..7 |-> IF d = 1 THEN <<T0900, T1059>> ELSE <<>>],
     [d \in 1..7 |-> IF d = 1 THEN <<T1100, T1800>> ELSE <<>>],
     [d \in 1..7 |-> IF d < 7 THEN <<T1100, T1800>> ELSE <<>>]}

\* steps of the clock
HourSteps == {Seconds(20), Minutes(1), Hours(1), Hours(7), OneDay}

\* days the clock runs for
MaxDays == 1

NextHours ==
    \/ \E schedule \in HourSchedules :
          config = <<>> /\ Start([ConfigOpen EXCEPT !.work_schedule = schedule])
    \/ \E a \in ActionTypes : Decide(a, "some")
    \/ \E d \in HourSteps :
          /\ now + d <= StartTime + MaxDays * OneDay + Hours(8)
          /\ Tick(d)

SpecHours == Init /\ [][NextHours]_vars

----------------------------------------------------------------------------

(* SpecDelay: the delay of an allowed decision on a fresh ledger           *)

\* min_action_delay and max_action_delay of config.yaml
DelayRanges == {<<30, 90>>, <<1, 5>>, <<95, 110>>}
\* behavior.work_schedule of config.yaml: none, or monday from 09:00 to 18:00
Schedules == {<<>>, [d \in 1..7 |-> IF d = 1 THEN <<T0900, T1800>> ELSE <<>>]}

\* hours the clock runs for
MaxDelayHours == 6

NextDelay ==
    \/ \E range \in DelayRanges, schedule \in Schedules :
          /\ config = <<>>
          /\ Start([ConfigOpen EXCEPT !.min_action_delay = range[1],
                                      !.max_action_delay = range[2],
                                      !.work_schedule = schedule])
    \/ Decide("connection", "all")
    \/ now + Hours(1) <= StartTime + Hours(MaxDelayHours) /\ Tick(Hours(1))

SpecDelay == Init /\ [][NextDelay]_vars

----------------------------------------------------------------------------
(* SpecSuspicion: decisions at a raised suspicion, over peak and other     *)
(* hours                                                                   *)

NextSuspicion ==
    \/ /\ config = <<>>
       /\ Start([ConfigOpen EXCEPT !.daily_connections = 10,
                                   !.min_action_delay = 45, !.max_action_delay = 50])
    \/ /\ config # <<>>
       /\ LedgerOpen
       /\ actions # <<>> => actions[Len(actions)].timestamp < now
       /\ RecordAction("connection", FALSE)
    \/ \E a \in ActionTypes : config # <<>> /\ Decide(a, "all")
    \/ now + Hours(1) <= StartTime + Hours(MaxDelayHours) /\ Tick(Hours(1))

SpecSuspicion == Init /\ [][NextSuspicion]_vars

----------------------------------------------------------------------------
(* SpecReload: load_config called more than once on one governor          *)

\* load_config calls on a running governor
MaxLoads == 2

\* the clock stays within the hour of the last action
NextReload ==
    \/ Start(ConfigOpen)
    \/ \E ok \in BOOLEAN : config # <<>> /\ LedgerOpen /\ RecordAction("connection", ok)
    \/ config # <<>> /\ history.loads < MaxLoads /\ Reload(ConfigOpen)
    \/ ClockRuns /\ Tick(Seconds(10))

SpecReload == Init /\ [][NextReload]_vars

----------------------------------------------------------------------------
(* SpecDenied: safe_operation before and within the hours of the schedule  *)

\* monday from 11:00 to 18:00; the process starts at 10:59:40
ConfigFromEleven ==
    [ConfigOpen EXCEPT !.work_schedule = [d \in 1..7 |-> IF d = 1 THEN <<T1100, T1800>> ELSE <<>>]]

NextDenied ==
    \/ \E n \in {1, 2, 3} :
          config = <<>> /\ Start([ConfigFromEleven EXCEPT !.daily_connections = n])
    \/ ClockRuns /\ Tick(Seconds(10))
    \/ \E raises \in BOOLEAN :
          config # <<>> /\ history.runs < MaxRuns /\ SafeOperation("connection", raises)
    \/ config # <<>> /\ Decide("connection", "some")
    \/ TimerFires

SpecDenied == Init /\ [][NextDenied]_vars

----------------------------------------------------------------------------
(* Properties of the ledger and the decision, checked under Spec and       *)
(* SpecPattern                                                             *)

Decided == last_call.op = "can_perform_action"
Deny(mode, delay) ==
    /\ ~last_call.result.allowed
    /\ last_call.result.mode = mode
    /\ last_call.result.delay = delay

\* C1: after every record_action and record_error call, and after the rise that
\* can_perform_action makes on a detected pattern, suspicion_level is within 0..100.
\* The code adds 5, 10 and 20 without a clamp.
C1_SuspicionWithinRange ==
    last_call.op \in {"record_action", "record_error", "can_perform_action"}
        => 0 <= suspicion_level /\ suspicion_level <= 100

\* the timestamps of the three most recent actions are exactly 10 seconds apart
TenSecondsApart ==
    /\ Len(actions) >= 3
    /\ LET recent == LastN(actions, 3)
       IN  /\ recent[2].timestamp - recent[1].timestamp = Seconds(10)
           /\ recent[3].timestamp - recent[2].timestamp = Seconds(10)

\* the checks that come before the pattern check passed in the last call
EarlierChecksPassed ==
    /\ config # <<>>
    /\ ~last_call.recovery_before
    /\ last_call.suspicion_before <= 70
    /\ _check_daily_limits(Governor, now, last_call.action_type).allowed

\* C3: when the three most recent actions are exactly 10 seconds apart and no
\* earlier check fails, can_perform_action denies with mode pattern_detected and a
\* delay within 60..180, and leaves suspicion_level at min(100, previous + 20).
C3_PatternDenied ==
    (Decided /\ TenSecondsApart /\ EarlierChecksPassed)
        => /\ ~last_call.result.allowed
           /\ last_call.result.mode = "pattern_detected"
           /\ last_call.result.delay \in 60..180
           /\ suspicion_level = Min(100, last_call.suspicion_before + 20)

C3_Witness ==
    /\ Decided /\ TenSecondsApart /\ EarlierChecksPassed
    /\ last_call.result.mode = "pattern_detected"
    /\ last_call.suspicion_before > 0

\* C10: with a configuration loaded, the decision is that of the first failing
\* check in the order recovery mode, suspicion above 70, quota, pattern, operating
\* window: (deny, recovery, 300) whenever recovery mode is active, and
\* (deny, suspicious, 600) whenever it is not and suspicion_level is above 70.
C10_FirstFailingCheckWins ==
    (Decided /\ config # <<>>)
        => IF last_call.recovery_before THEN Deny("recovery", 300)
           ELSE IF last_call.suspicion_before > 70 THEN Deny("suspicious", 600)
           ELSE IF ~_check_daily_limits(Governor, now, last_call.action_type).allowed
                THEN Deny("limit_reached",
                          IF last_call.action_type = "connection" THEN 3600 ELSE 1800)
           ELSE IF RoboticPattern(actions)
                THEN ~last_call.result.allowed /\ last_call.result.mode = "pattern_detected"
           ELSE IF ~_check_safe_hours(Governor, now).allowed THEN Deny("off_hours", 3600)
           ELSE last_call.result.allowed /\ last_call.result.mode = "normal"

\* recovery mode wins over a suspicion above 70, a reached quota, a robotic
\* pattern and a closed operating window, all present at once
C10_Witness ==
    /\ Decided /\ config # <<>>
    /\ last_call.recovery_before
    /\ last_call.suspicion_before > 70
    /\ last_call.action_type = "connection"
    /\ ~_check_daily_limits(Governor, now, "connection").allowed
    /\ RoboticPattern(actions)
    /\ ~_check_safe_hours(Governor, now).allowed
    /\ Deny("recovery", 300)

----------------------------------------------------------------------------
(* Properties of recovery mode, checked under SpecRecovery                 *)

\* the most recent activate_recovery_mode call
LastRecovery == recoveries[Len(recoveries)]

\* while recovery mode is active a timer is pending that ends it no later than
\* duration minutes after the most recent activation
DeactivationPending ==
    recovery_mode =>
        /\ timers # <<>>
        /\ recoveries # <<>>
        /\ Head(timers) <= LastRecovery.timestamp + Minutes(LastRecovery.duration)

\* C4: after activate_recovery_mode(d), with no further call, recovery_mode becomes
\* false once d minutes have passed; whenever recovery_mode is true a deferred
\* deactivation is pending, so that recovery mode always ends.
C4_RecoveryModeEnds == [](DeactivationPending) /\ (recovery_mode ~> ~recovery_mode)

\* a timer ended recovery mode exactly duration minutes after its activation
C4_Witness ==
    /\ last_call.op = "deactivate_recovery_mode"
    /\ last_call.result.by = "timer"
    /\ last_call.recovery_before
    /\ ~recovery_mode
    /\ now = LastRecovery.timestamp + Minutes(LastRecovery.duration)

----------------------------------------------------------------------------
(* Properties of the daily quota, checked under SpecQuota                  *)

\* every recorded action is a successful connection of today
OnlyConnectionsToday ==
    \A i \in 1..Len(actions) :
        /\ actions[i].type = "connection"
        /\ actions[i].success
        /\ actions[i].date = DateOf(now)

\* C2: after N successful record_action("connection") calls on one calendar day,
\* N the configured daily quota, with recovery mode inactive and suspicion_level
\* at most 70, can_perform_action("connection") denies with mode limit_reached and
\* a delay of 3600 seconds. The ledger keeps 100 actions only, so a greater quota
\* is never reached.
C2_QuotaDenies ==
    (/\ Decided
     /\ last_call.action_type = "connection"
     /\ config # <<>>
     /\ history.recorded >= config[1].daily_connections
     /\ OnlyConnectionsToday
     /\ ~last_call.recovery_before
     /\ last_call.suspicion_before <= 70)
        => Deny("limit_reached", 3600)

----------------------------------------------------------------------------
(* Properties of the backup store, checked under SpecBackup                *)

BackupsIn(dir) == {f \in recovery.backups : f.dir = dir}

\* C5: after every create_backup call the hourly tier holds the 24 most recently
\* created hourly backups and the daily tier the 7 most recently created daily
\* ones, all of them while fewer were created. A backup created in the second of
\* an earlier one of its tier replaces it.
C5_MostRecentRetained ==
    last_call.op = "create_backup"
        => /\ Cardinality(BackupsIn("hourly")) = Min(HourlyKept, history.hourly_created)
           /\ Cardinality(BackupsIn("daily")) = Min(DailyKept, history.daily_created)

----------------------------------------------------------------------------
(* Properties of safe_operation, checked under SpecRun                     *)

Ran == last_call.op = "safe_operation"
\* the last call was a safe_operation that the governor allowed and whose operation raised
RanAndRaised == Ran /\ last_call.result.seen.decision.allowed /\ last_call.result.raises

\* C6: a safe_operation call that was allowed and whose operation raises appends
\* exactly one record to the error list and calls recover_from_crash once. Both
\* record_error and record_action(success=False) append to the list.
C6_OneErrorRecord ==
    RanAndRaised
        => /\ Len(errors) = last_call.errors_before + 1
           /\ last_call.result.seen.recover_calls = 1

\* C7: when the operation raises and the probe of recover_from_crash fails in
\* three failing safe_operation calls in a row, an emergency stop was made and
\* suspicion_level is 100 when the third call returns.
C7_ThirdFailureStops ==
    (RanAndRaised /\ ~last_call.result.seen.accessible /\ history.probe_failures >= 3)
        => /\ suspicion_level = 100
           /\ recovery_mode
           /\ Len(emergencies) = last_call.emergencies_before + 1
           /\ emergencies[Len(emergencies)].timestamp = now

C7_Witness ==
    /\ RanAndRaised
    /\ ~last_call.result.seen.accessible
    /\ history.probe_failures = 3
    /\ last_call.suspicion_before < 55
    /\ suspicion_level = 100

\* C8: loading a persisted state into a fresh governor gives the suspicion_level,
\* the recovery_mode and the numbers of actions and errors that were persisted.
\* _load_session_state recomputes suspicion_level from the lists and leaves
\* recovery_mode as constructed.
C8_RoundTrip ==
    (last_call.op = "load_config" /\ state_file # <<>>)
        => /\ suspicion_level = state_file[1].suspicion_level
           /\ recovery_mode = state_file[1].recovery_mode
           /\ Len(actions) = Len(state_file[1].actions)
           /\ Len(errors) = Len(state_file[1].errors)

----------------------------------------------------------------------------
(* Properties of the delay, checked under SpecDelay                        *)

\* suspicion_level 0, no prior action, quota not reached, within operating hours
FreshAndOpen ==
    /\ Decided
    /\ last_call.action_type = "connection"
    /\ config # <<>>
    /\ last_call.suspicion_before = 0
    /\ ~last_call.recovery_before
    /\ actions = <<>>
    /\ config[1].daily_connections > 0
    /\ _check_safe_hours(Governor, now).allowed

Clamp(x, lo, hi) == Max(lo, Min(x, hi))

\* C9 as stated: the delay lies in the configured range, or in that range scaled
\* by 1.3 in a peak hour
C9_DelayInConfiguredRange ==
    FreshAndOpen
        => /\ last_call.result.allowed
           /\ last_call.result.mode = "normal"
           /\ \/ last_call.result.delay \in config[1].min_action_delay..config[1].max_action_delay
              \/ /\ PeakHour(now)
                 /\ 13 * config[1].min_action_delay <= 10 * last_call.result.delay
                 /\ 10 * last_call.result.delay <= 13 * config[1].max_action_delay

\* 1.2 times x, times 1.3 in a peak hour, rounded down
Scaled(x) == (x * 12 * (IF PeakHour(now) THEN 13 ELSE 10)) \div 100

\* C9, amended: the delay lies in the configured range scaled by the 1.2 of a
\* connection, and by 1.3 in a peak hour, rounded down and clamped to 10..120.
C9_DelayInScaledRange ==
    FreshAndOpen
        => /\ last_call.result.allowed
           /\ last_call.result.mode = "normal"
           /\ Clamp(Scaled(config[1].min_action_delay), 10, 120) <= last_call.result.delay
           /\ last_call.result.delay <= Clamp(Scaled(config[1].max_action_delay), 10, 120)

\* a delay above the configured maximum, outside the peak hours
C9_Witness ==
    /\ FreshAndOpen
    /\ ~PeakHour(now)
    /\ config[1].max_action_delay = 90
    /\ last_call.result.delay = 108

----------------------------------------------------------------------------
(* Properties of the emergency stop, checked under SpecRecovery            *)

\* what _save_session_state writes for the governor as it is now
Persisted ==
    <<[suspicion_level |-> suspicion_level, recovery_mode |-> recovery_mode,
       actions |-> actions, errors |-> errors,
       recoveries |-> recoveries, emergencies |-> emergencies]>>

\* C13: when emergency_stop(reason) returns, suspicion_level is 100, recovery_mode
\* is true, one emergency record with that reason and the action EMERGENCY_STOP
\* and one recovery record of duration 240 were appended, and the state file
\* holds that state.
C13_EmergencyStopSets ==
    last_call.op = "emergency_stop"
        => /\ suspicion_level = 100
           /\ recovery_mode
           /\ Len(emergencies) = last_call.emergencies_before + 1
           /\ emergencies[Len(emergencies)].reason = "reason"
           /\ emergencies[Len(emergencies)].action = "EMERGENCY_STOP"
           /\ emergencies[Len(emergencies)].timestamp = now
           /\ Len(recoveries) = last_call.recoveries_before + 1
           /\ LastRecovery.duration = 240
           /\ LastRecovery.timestamp = now
           /\ state_file = Persisted

\* an emergency stop made at a low suspicion while an earlier timer is pending
C13_Witness ==
    /\ last_call.op = "emergency_stop"
    /\ last_call.suspicion_before < 70
    /\ Len(timers) = 2
    /\ suspicion_level = 100
    /\ state_file = Persisted

----------------------------------------------------------------------------

\* C14: recovery_mode stays true until the duration of the most recent
\* activate_recovery_mode call has passed: a timer ends an active recovery mode
\* no earlier. Every activation starts a timer of its own, and the timer of an
\* earlier, shorter activation ends the mode of a later one.
C14_LastsFullDuration ==
    (/\ last_call.op = "deactivate_recovery_mode"
     /\ last_call.result.by = "timer"
     /\ last_call.recovery_before)
        => now >= LastRecovery.timestamp + Minutes(LastRecovery.duration)

----------------------------------------------------------------------------

\* C16: after every call that changes suspicion_level or recovery_mode
\* (record_action, record_error, activate_recovery_mode, deactivate_recovery_mode,
\* emergency_stop, and can_perform_action on a detected pattern) the state file
\* holds the suspicion_level and recovery_mode of the governor.
\* activate_recovery_mode, deactivate_recovery_mode and _check_action_patterns do
\* not call _save_session_state.
C16_FileFollowsMemory ==
    last_call.op \in {"record_action", "record_error", "activate_recovery_mode",
                      "deactivate_recovery_mode", "emergency_stop", "can_perform_action"}
        => /\ state_file # <<>>
           /\ state_file[1].suspicion_level = suspicion_level
           /\ state_file[1].recovery_mode = recovery_mode

----------------------------------------------------------------------------

(* Properties of a denied safe_operation, checked under SpecRun            *)

\* the last call was a safe_operation that the governor denied
RanAndDenied == Ran /\ ~last_call.result.seen.decision.allowed

\* C12: a safe_operation that the governor denies appends exactly one action
\* record, failed and with the details {reason, mode} of the denial, does not call
\* the operation, writes no backup, calls neither recover_from_crash nor
\* emergency_stop, and returns (False, None, reason).
C12_DeniedRunOnlyRecords ==
    RanAndDenied
        => /\ Len(actions) = last_call.actions_before + 1
           /\ LET action_record == actions[Len(actions)]
                  safety_check == last_call.result.seen.decision
              IN  /\ action_record.type = last_call.action_type
                  /\ ~action_record.success
                  /\ action_record.details = [reason |-> safety_check.reason,
                                              mode |-> safety_check.mode]
                  /\ last_call.result.returned =
                        [success |-> FALSE, message |-> <<safety_check.reason>>]
           /\ last_call.result.seen.operation_calls = 0
           /\ recovery.backups = last_call.backups_before
           /\ Len(recovery.recovery_log) = last_call.recovery_log_before
           /\ Len(emergencies) = last_call.emergencies_before

\* a run denied in recovery mode, after an emergency stop of an earlier run
C12_Witness ==
    /\ RanAndDenied
    /\ last_call.result.seen.decision.mode = "recovery"
    /\ emergencies # <<>>
    /\ Len(actions) = 2

----------------------------------------------------------------------------

(* Properties of safe_operation with faults, checked under SpecFault       *)

\* C11: safe_operation never lets an exception through to its caller: whatever
\* the decision, the backup, the operation, the records, the recovery and the
\* emergency stop do, it returns a (success, result, message) triple. The
\* pre_action backup is written outside the try.
C11_RunAlwaysReturns ==
    Ran => "success" \in DOMAIN last_call.result.returned

----------------------------------------------------------------------------
(* Properties of unserialized access, checked under SpecRace               *)

\* C15: when a deactivate_recovery_mode of a timer runs at once with a
\* record_action, record_error or activate_recovery_mode of the foreground, the
\* suspicion_level and recovery_mode they leave are those of one of the two
\* serial orders of the two calls. The code takes no lock.
C15_Serializable ==
    last_call.op = "race"
        => [suspicion_level |-> suspicion_level, recovery_mode |-> recovery_mode]
              \in last_call.result.serial

----------------------------------------------------------------------------
(* Properties of the state file, checked under SpecKill                    *)

\* C17: at every point, a kill inside a write included, the state file holds a
\* complete persisted state: the one before the write or the one after it.
\* _save_session_state opens the file itself with 'w' and writes into it.
C17_FileAlwaysComplete ==
    state_file # <<>> => state_file[1] # Partial

----------------------------------------------------------------------------
(* Properties of CAPTCHA handling, checked under SpecCaptcha               *)

\* C18: handle_captcha appends exactly one entry to the recovery log whatever
\* the action; for stop it returns an outcome of status stopped, for notify one
\* of status notified without sleeping, and for wait resolved or still_present
\* as detect_captcha finds after the wait. On stop the code raises before the
\* append.
C18_OneOutcomeLogged ==
    (last_call.op = "handle_captcha" /\ last_call.action_type \in {"wait", "notify", "stop"})
        => /\ Len(recovery.recovery_log) = last_call.recovery_log_before + 1
           /\ ~last_call.result.raised
           /\ last_call.result.returned # <<>>
           /\ LET status == last_call.result.returned[1].status
              IN  /\ last_call.action_type = "stop" => status = "stopped"
                  /\ last_call.action_type = "notify"
                        => status = "notified" /\ last_call.result.slept = 0
                  /\ last_call.action_type = "wait"
                        => status = IF detect_captcha(recovery, last_call.result.shown)
                                    THEN "still_present" ELSE "resolved"

\* can_perform_action would deny a connection now
Denies ==
    /\ config # <<>>
    /\ ~can_perform_action(Governor, now, "connection", 60,
                           config[1].min_action_delay).result.allowed

\* the last call was a safe_operation that the governor allowed
RanAndAllowed == Ran /\ last_call.result.seen.decision.allowed

\* once the retries have begun, a stuck governor stays stuck and denies every run
StuckStays ==
    [][(Stuck /\ history.runs > 0) => (Stuck' /\ ~RanAndAllowed')]_vars

\* the retries are followed until a run is allowed or the governor is stuck
RetriesEndStuck ==
    (config # <<>> /\ history.created = 0 /\ ~RetryDue) => Stuck

Recovered == last_call.op = "recover_from_crash"

\* C21: recover_from_crash goes through locating the latest backup, restoring
\* the cookies (when a browser is attached), clearing the browser's state and
\* the probe, in this order, also when the restore or the clearing fails; its
\* success is true exactly when the probe succeeded; and it appends exactly one
\* recovery_attempt, the one it returns, to the recovery log.
C21_AllStepsOneEntry ==
    Recovered =>
        /\ last_call.result.calls =
              IF last_call.result.attached
              THEN <<"_find_latest_backup", "_restore_latest_cookies",
                     "_clean_problematic_elements", "_check_linkedin_access">>
              ELSE <<"_find_latest_backup", "_clean_problematic_elements",
                     "_check_linkedin_access">>
        /\ last_call.result.returned.success
              <=> (last_call.result.attached /\ last_call.result.reachable)
        /\ last_call.result.returned.success = last_call.result.returned.linkedin_accessible
        /\ Len(recovery.recovery_log) = last_call.recovery_log_before + 1
        /\ recovery.recovery_log[Len(recovery.recovery_log)] = last_call.result.returned

\* a recovery with a browser and a cookie file whose restore failed and whose
\* clearing failed, and whose probe succeeded
C21_Witness ==
    /\ Recovered
    /\ last_call.result.attached
    /\ last_call.result.cookie_files > 0
    /\ last_call.result.restore_fails # "no"
    /\ last_call.result.clean_fails
    /\ last_call.result.returned.success

\* C22: a safe_operation call makes an emergency stop exactly when, in that
\* call, the operation raised and recover_from_crash reported no success; a
\* denied run, a run whose operation returned and a run whose recovery
\* succeeded make none.
C22_StopsOnlyAfterFailedRecovery ==
    Ran =>
        (Len(emergencies) = last_call.emergencies_before + 1
            <=> (last_call.result.raises /\ last_call.result.seen.recover_calls = 1
                                        /\ ~last_call.result.seen.accessible))
        /\ Len(emergencies) \in {last_call.emergencies_before, last_call.emergencies_before + 1}

\* the backups of this type that the last call wrote
WrittenByLastCall(backup_type) ==
    {f \in recovery.backups \ last_call.backups_before : f.type = backup_type}

\* C23: in a safe_operation call that is allowed and whose operation returns,
\* the pre_action backup is written, then the operation is called, then the
\* action is recorded as a success, then the post_action backup is written; a
\* call whose operation raised writes no post_action backup; and every allowed
\* call writes the pre_action backup before it calls the operation.
C23_BackupsAroundOperation ==
    (Ran /\ last_call.result.seen.decision.allowed) =>
        LET events == last_call.result.seen.events
            started == now - Seconds(last_call.result.seen.decision.delay)
        IN  /\ Len(events) >= 2
            /\ events[1] = "create_backup pre_action"
            /\ events[2] = "operation_func"
            /\ \E f \in WrittenByLastCall("pre_action") : f.created_at = started
            /\ ~last_call.result.raises =>
                  /\ events = <<"create_backup pre_action", "operation_func",
                                "record_action", "create_backup post_action">>
                  /\ Len(actions) = Min(last_call.actions_before + 1, ActionsKept)
                  /\ actions[Len(actions)].success
                  /\ \E f \in WrittenByLastCall("post_action") : f.created_at = now
                  /\ \A f \in WrittenByLastCall("pre_action"), h \in WrittenByLastCall("post_action") :
                        f.serial < h.serial
            /\ last_call.result.raises =>
                  /\ WrittenByLastCall("post_action") = {}
                  /\ \A i \in Items(events) : events[i] # "create_backup post_action"

\* an allowed run whose operation returned, after an allowed run whose operation raised
C23_Witness ==
    /\ Ran
    /\ last_call.result.seen.decision.allowed
    /\ ~last_call.result.raises
    /\ last_call.errors_before > 0
    /\ WrittenByLastCall("post_action") # {}

\* the safe_operation call made now whose operation raises, with a probe of
\* the recovery that finds what reachable says
RaisingRun(reachable) ==
    safe_operation(Governor, recovery, now, "connect", TRUE, reachable, 60,
                   IF config = <<>> THEN 0 ELSE config[1].min_action_delay,
                   history.created + 1, FALSE)

\* C24: when the operation raises, the message that safe_operation returns
\* carries the error text and the outcome of the recovery: a run whose recovery
\* succeeded and a run whose recovery failed return different messages for the
\* same error.
C24_MessageTellsRecovery ==
    (/\ RaisingRun(TRUE).seen.recover_calls = 1
     /\ RaisingRun(TRUE).seen.accessible
     /\ ~RaisingRun(FALSE).seen.accessible)
        => /\ RaisingRun(TRUE).result.message[1] = "error"
           /\ RaisingRun(FALSE).result.message[1] = "error"
           /\ RaisingRun(TRUE).result.message # RaisingRun(FALSE).result.message

\* the last call was a record_error
RecordedError == last_call.op = "record_error"

\* the entries of the error list stamped within the trailing 3600 seconds
RecentErrors ==
    Cardinality({i \in Items(errors) : now - errors[i].timestamp < Seconds(3600)})

C26_LastHundredInOrder ==
    /\ Len(actions) = Min(history.recorded, ActionsKept)
    /\ \A i \in Items(actions) :
          actions[i].details.serial = history.recorded - Len(actions) + i

\* more calls than the list keeps
C26_Witness ==
    /\ last_call.op = "record_action"
    /\ history.recorded > ActionsKept + 1
    /\ Len(actions) = ActionsKept

MessagesToday ==
    {i \in Items(actions) : actions[i].type = "message" /\ actions[i].date = DateOf(now)}

\* C28: after M record_action("message") calls on one calendar day, M the
\* configured messages_per_day, with recovery mode inactive and suspicion_level
\* at most 70, can_perform_action("message") denies with mode limit_reached and a
\* delay of 1800 seconds. The count is taken over records with the key subtype,
\* which record_action never writes.
C28_MessageQuotaDenies ==
    (/\ Decided
     /\ last_call.action_type = "message"
     /\ config # <<>>
     /\ Cardinality(MessagesToday) >= config[1].messages_per_day
     /\ ~last_call.recovery_before
     /\ last_call.suspicion_before <= 70)
        => Deny("limit_reached", 1800)

\* with a quota of 0 the denial is made
C28_DeniedAtZero ==
    /\ Decided
    /\ last_call.action_type = "message"
    /\ config # <<>>
    /\ config[1].messages_per_day = 0
    /\ Deny("limit_reached", 1800)

\* with a quota above 0 the quota never denies
C28_NeverDeniedAboveZero ==
    (Decided /\ config # <<>> /\ config[1].messages_per_day > 0)
        => last_call.result.mode # "limit_reached"

\* the time that passed between the last three actions, in ticks of the clock
ElapsedBetween(acts) ==
    LET last_actions == LastN(acts, 3)
    IN  [i \in 1..2 |-> last_actions[i+1].timestamp - last_actions[i].timestamp]

\* C29: can_perform_action returns mode pattern_detected only if at least 3
\* actions are recorded and the two intervals between the timestamps of the last
\* three are the same elapsed time, shorter than 30 seconds. The code compares
\* the seconds field of the differences, which leaves out their days and their
\* fractions of a second.
C29_PatternOnlyOnIdenticalIntervals ==
    (Decided /\ last_call.result.mode = "pattern_detected")
        => /\ Len(actions) >= 3
           /\ ElapsedBetween(actions)[1] = ElapsedBetween(actions)[2]
           /\ ElapsedBetween(actions)[1] < Seconds(30)

\* what holds instead: the denial is made exactly on equal seconds fields
C29_PatternOnSecondsField ==
    (Decided /\ config # <<>> /\ last_call.result.mode = "pattern_detected")
        => /\ Len(actions) >= 3
           /\ Intervals(actions)[1] = Intervals(actions)[2]
           /\ Intervals(actions)[1] < 30

\* a denial on intervals of 5 seconds and of one day and 5 seconds
C29_DayApart ==
    /\ Decided /\ last_call.result.mode = "pattern_detected"
    /\ Len(actions) >= 3
    /\ ElapsedBetween(actions) = <<Seconds(5), OneDay + Seconds(5)>>

\* a denial on intervals of 5 and of 5.5 seconds
C29_FractionApart ==
    /\ Decided /\ last_call.result.mode = "pattern_detected"
    /\ Len(actions) >= 3
    /\ ElapsedBetween(actions) = <<Seconds(5), Seconds(5) + 1>>

\* the minute of the day of a time and of an 'HH:MM' string
MinuteOfDay(t) == (t % OneDay) \div Minutes(1)
MinuteOfDayOf(hhmm) == (hhmm[1] * 10 + hhmm[2]) * 60 + hhmm[4] * 10 + hhmm[5]

\* the entry of the work schedule for the day of now
TodaysEntry == config[1].work_schedule[WeekdayOf(now) + 1]

OutsideTodaysInterval ==
    \/ MinuteOfDay(now) < MinuteOfDayOf(TodaysEntry[1])
    \/ MinuteOfDay(now) > MinuteOfDayOf(TodaysEntry[2])

\* C30: when the earlier checks pass and a work schedule is configured,
\* can_perform_action denies with mode off_hours and a delay of 3600 seconds
\* exactly when the weekday has no entry or the time of day, to the minute, is
\* before the start or after the end of today's entry; without a work schedule
\* no decision has mode off_hours.
C30_OffHoursExactlyOutside ==
    (Decided /\ EarlierChecksPassed /\ ~RoboticPattern(actions))
        => /\ last_call.result.mode = "off_hours" => Deny("off_hours", 3600)
           /\ IF config[1].work_schedule = <<>>
              THEN last_call.result.mode # "off_hours"
              ELSE last_call.result.mode = "off_hours"
                       <=> (TodaysEntry = <<>> \/ OutsideTodaysInterval)

\* a denial in the minute after the end of today's entry
C30_Witness ==
    /\ Decided /\ EarlierChecksPassed
    /\ config[1].work_schedule # <<>>
    /\ TodaysEntry # <<>>
    /\ MinuteOfDay(now) = MinuteOfDayOf(TodaysEntry[2]) + 1
    /\ Deny("off_hours", 3600)

\* the two ends of the interval are allowed
C30_EndsAllowed ==
    (/\ Decided /\ EarlierChecksPassed /\ ~RoboticPattern(actions)
     /\ config[1].work_schedule # <<>>
     /\ TodaysEntry # <<>>
     /\ MinuteOfDay(now) \in {MinuteOfDayOf(TodaysEntry[1]), MinuteOfDayOf(TodaysEntry[2])})
        => last_call.result.allowed

\* C31: every allowed decision carries the delay
\* clamp(floor(base * (1 + suspicion_level/100) * 1.2|1.0 * 1.3|1.0), 10, 120)
\* for a whole base within the configured range. The code takes the product in
\* floating point, which for some inputs lies just below the whole number that
\* the exact product is.
C31_DelayIsTheFormula ==
    (Decided /\ last_call.result.allowed)
        => \E base \in config[1].min_action_delay..config[1].max_action_delay :
              last_call.result.delay
                  = _calculate_safe_delay_exact(Governor, now, last_call.action_type, base)

\* what holds as well: the delay of an allowed decision is within 10..120
C31_DelayWithinClamp ==
    (Decided /\ last_call.result.allowed) => last_call.result.delay \in 10..120

\* and for a fixed base the delay does not fall when suspicion_level rises
C31_DelayMonotone ==
    config # <<>> =>
        \A base \in config[1].min_action_delay..config[1].max_action_delay :
        \A a \in ActionTypes, level \in 0..70 :
            _calculate_safe_delay([Governor EXCEPT !.suspicion_level = level], now, a, base)
                <= _calculate_safe_delay([Governor EXCEPT !.suspicion_level = level + 1],
                                         now, a, base)

\* a connection allowed at suspicion 15 outside the peak hours with delay 68,
\* which no base gives: 49 gives 67 and 50 gives 69
C31_Delay68 ==
    /\ Decided /\ last_call.result.allowed
    /\ last_call.action_type = "connection"
    /\ last_call.suspicion_before = 15
    /\ ~PeakHour(now)
    /\ last_call.result.delay = 68

\* the suspicion that the lists of the ledger give at the time of now:
\* min(100, 30 for more than 10 actions per hour + 25 for errors above 20% of
\* the actions + 30 for more than 2 recoveries in the last 24 hours), less 20%
\* when the last action is over an hour old
LevelOfHistory ==
    IF actions = <<>> THEN 0
    ELSE LET n == Len(actions)
             span == actions[n].timestamp - actions[1].timestamp
             dense == span > 0 /\ n * Hours(1) > 10 * span
             faulty == 100 * Len(errors) > 20 * n
             recent == {i \in Items(recoveries) : now - recoveries[i].timestamp < OneDay}
             level == Min(100, (IF dense THEN 30 ELSE 0) + (IF faulty THEN 25 ELSE 0)
                               + (IF Cardinality(recent) > 2 THEN 30 ELSE 0))
         IN  IF now - actions[n].timestamp > Hours(1) THEN (level * 8) \div 10 ELSE level

\* C32: after every load_config that found a state file, suspicion_level is the
\* level that the loaded lists give, within 0..100, whether the governor loads
\* for the first time or again. _calculate_suspicion_level adds to the
\* suspicion_level the governor has.
C32_LoadDerivesFromHistory ==
    (last_call.op = "load_config" /\ state_file # <<>> /\ state_file[1] # Partial)
        => /\ suspicion_level = LevelOfHistory
           /\ suspicion_level \in 0..100

\* what holds instead: the first load of a governor gives that level
C32_FirstLoadDerivesFromHistory ==
    (/\ last_call.op = "load_config" /\ last_call.result = Nothing
     /\ state_file # <<>> /\ state_file[1] # Partial)
        => /\ suspicion_level = LevelOfHistory
           /\ suspicion_level \in 0..100

\* a second load of the same file that leaves a higher suspicion_level than
\* the first
C32_SecondLoadAdds ==
    /\ last_call.op = "load_config" /\ last_call.result # Nothing
    /\ LevelOfHistory = 25
    /\ last_call.suspicion_before = 25
    /\ suspicion_level = 50

\* the backups that were there before the last call and whose file now holds
\* what another call wrote
Overwritten ==
    {f \in last_call.backups_before :
        \E h \in recovery.backups : SamePath(h, f.dir, f.name) /\ h # f}

\* C33: a backup, once written, is never overwritten: after every create_backup
\* call each file that was there before is either gone or holds what it held,
\* and the call wrote a file that was not there. The file name carries the time
\* cut to the second, so a second backup of a tier within one second takes the
\* file of the first.
C33_NeverOverwritten ==
    last_call.op = "create_backup"
        => /\ Overwritten = {}
           /\ \E h \in recovery.backups :
                 /\ h.serial = history.created
                 /\ \A f \in last_call.backups_before : ~SamePath(f, h.dir, h.name)

\* what holds instead: only a backup of the current second is overwritten
C33_OverwrittenInItsSecond ==
    last_call.op = "create_backup"
        => \A f \in Overwritten : f.name.stamp = Stamp(now) /\ f.type = last_call.action_type

\* the backups outside the hourly and the daily tier
AdHoc(files) == {f \in files : f.dir = "backups"}

\* the backups kept in a tier
Kept(dir) == IF dir = "hourly" THEN HourlyKept ELSE DailyKept

\* C34: the pruning of create_backup deletes no backup outside the two tiers
\* and no backup of a tier that is within its limit: after every create_backup
\* the untiered backups are those of before and the one just written, and a
\* tier that held fewer backups than its limit has lost no file.
C34_PruneSparesAdHoc ==
    last_call.op = "create_backup"
        => /\ AdHoc(last_call.backups_before) \subseteq AdHoc(recovery.backups)
           /\ \A h \in AdHoc(recovery.backups) \ AdHoc(last_call.backups_before) :
                 h.serial = history.created
           /\ \A dir \in {"hourly", "daily"} :
                 Cardinality({f \in last_call.backups_before : f.dir = dir}) < Kept(dir)
                     => \A f \in last_call.backups_before :
                           f.dir = dir => \E h \in recovery.backups : SamePath(h, f.dir, f.name)

\* an hourly backup whose pruning deleted one while a manual backup is there
C34_Witness ==
    /\ last_call.op = "create_backup"
    /\ last_call.action_type = "hourly"
    /\ Cardinality({f \in last_call.backups_before : f.dir = "hourly"}) = HourlyKept
    /\ Cardinality(BackupsIn("hourly")) = HourlyKept
    /\ \E f \in last_call.backups_before : f.dir = "hourly" /\ f \notin recovery.backups
    /\ AdHoc(recovery.backups) # {}
    /\ AdHoc(recovery.backups) = AdHoc(last_call.backups_before)

\* C35: can_perform_action changes neither the action, error, recovery and
\* emergency lists nor recovery_mode, the timers and the state file, and it
\* changes suspicion_level only in a call that returns mode pattern_detected.
C35_DecideReadsOnly ==
    [][last_call'.op = "can_perform_action"
          => /\ actions' = actions
             /\ errors' = errors
             /\ recoveries' = recoveries
             /\ emergencies' = emergencies
             /\ recovery_mode' = recovery_mode
             /\ timers' = timers
             /\ state_file' = state_file
             /\ config' = config
             /\ last_call'.result.mode # "pattern_detected"
                    => suspicion_level' = suspicion_level]_vars

\* a decision with mode pattern_detected on a ledger with an error, which
\* raised suspicion_level by 20
C35_Witness ==
    /\ Decided
    /\ last_call.result.mode = "pattern_detected"
    /\ suspicion_level = last_call.suspicion_before + 20
    /\ Len(errors) = last_call.errors_before
    /\ Len(errors) > 0

\* what _check_daily_limits counts for a connection on the day of the last
\* record: the records of that type and date
CountedOf(acts, action_type) ==
    Cardinality({i \in Items(acts) : /\ acts[i].type = action_type
                                     /\ acts[i].date = actions[Len(actions)].date})

\* C36: a safe_operation call that the governor denied does not raise the count
\* that the quota check compares with the configured maximum. The denied branch
\* records the attempt under the type of the operation, and the count takes
\* every record of that type, failed ones included.
C36_DenialSparesQuota ==
    (Ran /\ ~last_call.result.seen.decision.allowed /\ actions # <<>>)
        => CountedOf(actions, last_call.action_type)
              = CountedOf(SubSeq(actions, 1, last_call.actions_before), last_call.action_type)

\* a denial by the quota when no operation was ever called: every allowed call
\* writes a pre_action backup first
C36_QuotaSpentByDenials ==
    /\ last_call.op \in {"safe_operation", "can_perform_action"}
    /\ last_call.action_type = "connection"
    /\ IF Ran THEN last_call.result.seen.decision.mode = "limit_reached"
       ELSE last_call.result.mode = "limit_reached"
    /\ history.created = 0
    /\ recovery.backups = {}

\* the last recover_from_crash restored cookies in its restore step
RestoredCookies ==
    /\ Recovered
    /\ \E i \in Items(last_call.result.returned.steps) :
          last_call.result.returned.steps[i] = "Cookies restauradas"

\* the cookies of the most recent cookie file
LatestCookies ==
    (CHOOSE c \in recovery.cookie_files :
        \A d \in recovery.cookie_files : d.serial <= c.serial).cookies

\* C37: when recover_from_crash restored the cookies of a session, the browser
\* still holds them when the probe runs and when the call returns. The step
\* after the restore, _clean_problematic_elements, deletes every cookie.
C37_RestoredCookiesStay ==
    RestoredCookies => recovery.driver[1].cookies = LatestCookies

\* what holds instead: restored cookies stay only when the clearing raised
C37_StayOnlyWhenClearingFails ==
    (RestoredCookies /\ LatestCookies # "none")
        => (recovery.driver[1].cookies = LatestCookies <=> last_call.result.clean_fails)

\* a recovery that restored the cookies of a session, cleared them and found
\* the site reachable
C37_RestoredAndCleared ==
    /\ RestoredCookies
    /\ LatestCookies = "session"
    /\ recovery.driver[1].cookies = "none"
    /\ last_call.result.returned.success

\* the operation of the last safe_operation raised while the site could be
\* reached
RaisedWhileReachable == RanAndRaised /\ last_call.result.reachable

\* C38: with the RecoverySystem that EnhancedLinkedInBot constructs, a
\* safe_operation whose operation raises while the site can be reached ends
\* with a successful recovery and without an emergency stop. That
\* RecoverySystem has no driver, and without a driver the probe fails.
C38_RecoveryCanSucceed ==
    RaisedWhileReachable
        => /\ last_call.result.seen.accessible
           /\ last_call.result.seen.emergency_calls = 0
           /\ Len(emergencies) = last_call.emergencies_before

\* what holds instead: no safe_operation call ends with a successful recovery,
\* and every call whose operation raised makes an emergency stop
C38_RecoveryNeverSucceeds ==
    Ran => /\ ~last_call.result.seen.accessible
           /\ RanAndRaised => Len(emergencies) = last_call.emergencies_before + 1

\* a timer ran deactivate_recovery_mode while recovery_mode was false already
LateDeactivation ==
    /\ last_call.op = "deactivate_recovery_mode"
    /\ last_call.result.by = "timer"
    /\ ~last_call.recovery_before

\* C39: a deferred deactivate_recovery_mode that fires while recovery_mode is
\* false already leaves suspicion_level and recovery_mode as they are, so that
\* the 20 are taken off once per period of recovery mode.
\* deactivate_recovery_mode takes them off whenever it runs.
C39_LateDeactivationChangesNothing ==
    LateDeactivation
        => /\ suspicion_level = last_call.suspicion_before
           /\ ~recovery_mode

\* what holds instead: every deactivation takes 20 off, down to 0
C39_EveryDeactivationDecays ==
    last_call.op = "deactivate_recovery_mode"
        => /\ suspicion_level = Max(0, last_call.suspicion_before - 20)
           /\ ~recovery_mode

\* the timer of an overlapping activation takes a second 20 off
C39_SecondDecay ==
    /\ LateDeactivation
    /\ Len(recoveries) >= 2
    /\ suspicion_level = last_call.suspicion_before - 20

\* the workers whose thread has not returned yet
Alive == {i \in Items(app.workers) : app.workers[i].pc # "done"}

\* worker i has just run the finally clause of run_bot
RanFinally(i) ==
    /\ last_call.op = "run_bot"
    /\ last_call.result.returned.worker = i
    /\ last_call.action_type # "safe_shutdown"
    /\ app.workers[i].pc \in {"safe_shutdown", "done"}

\* C40: at most one worker runs at any time, and a worker that ends leaves the
\* flag of a newer worker alone: when the finally clause of a worker has run,
\* no worker started after it is alive.
\* start_bot accepts a start as soon as stop_bot has cleared is_running, while
\* the stopped worker is still alive.
C40_OneWorkerAtATime ==
    /\ Cardinality(Alive) <= 1
    /\ \A i \in Items(app.workers) :
          RanFinally(i) => \A j \in Alive : j <= i

\* what holds instead: a second worker is alive only after a stop_bot that was
\* accepted during the life of another, or while another is in the
\* safe_shutdown that ends its run
C40_SecondWorkerOnlyAfterStop ==
    Cardinality(Alive) > 1
        => \E i \in Alive : app.workers[i].stopped \/ app.workers[i].pc = "safe_shutdown"

\* two workers are inside calls on their bots at the same time
C40_TwoWorkersOperate ==
    \E i, j \in Alive :
        /\ i < j
        /\ app.workers[i].pc \in Operations
        /\ app.workers[j].pc \in Operations

\* the finally clause of the older worker has cleared the flag of a newer one
\* that no stop_bot was meant for
C40_OldWorkerClearsFlag ==
    \E i \in Items(app.workers), j \in Alive :
        /\ i < j
        /\ RanFinally(i)
        /\ ~app.workers[j].stopped
        /\ app.workers[j].pc \in Operations
        /\ ~app.is_running

====
